---- MODULE Spec2Model ----
(***************************************************************************)
(* Model of the grant capture / rule engine / webhook delivery pipeline.   *)
(*                                                                         *)
(*   grants, history          the two database tables (committed rows)     *)
(*   tasks, now               the handlers in flight (a bag), wall clock   *)
(*   room                     rows and handlers the behaviour may hold     *)
(*   bk*                      inputs and results of the backoff function   *)
(*   flt                      one evaluation of the rule engine            *)
(*   runs                     the capture runs in flight (a bag)           *)
(*   db                       "up" or "down": whether the database answers *)
(*   conv                     one conversion of a source record to a grant *)
(*                                                                         *)
(* Every handler is asynchronous code on one event loop: between two       *)
(* awaits it runs atomically, so one action is one such segment.           *)
(***************************************************************************)
EXTENDS Integers, Sequences, FiniteSets, Bags, TLC

\* ------------------------------------------------------------------ bounds
MaxHistory == 2       \* history rows created in one behaviour of sends
MaxTasks == 2          \* handlers (sends, batches) running at once
MaxOutageTasks == 1    \* handlers running at once while the database comes and goes
MaxSweepHistory == 4  \* history rows created in one behaviour with sweeps
MaxSweepTasks == 3    \* handlers (sends, sweeps) running at once
MaxResumeHistory == 3 \* history rows created in one behaviour of sends and fair sweeps
MaxResumeTasks == 2   \* handlers running at once while sweeps keep running
MaxTime == 6          \* seconds of wall clock observed
MaxLimit == 2         \* largest limit or batch size handed to a loop
MaxRetriesArg == 14   \* largest max_retries handed to the backoff function
MaxRules == 2         \* rules in a filter profile
MaxProfileRules == 1  \* rules in each of two profiles evaluated together
MaxProfileWeight == 1 \* largest weight of a rule of those profiles
MaxWeight == 2        \* largest weight of a rule
MaxRuns == 1          \* capture runs in flight (one blocks the event loop)
MaxProcesses == 2     \* processes that run captures on the same database
MaxLifecycleTasks == 1 \* deliveries and callbacks in flight beside a capture run
MaxRecords == 2       \* records a BOE or BDNS capture run is handed
MaxPages == 2         \* largest max_pages of a PLACSP capture run
MaxEntries == 2       \* entries on one page of the PLACSP feed
MaxDocuments == 2     \* attachments and announcements of a BDNS record

\* ------------------------------------------------------- program constants
max_retries == 3
base_delay == 2
max_delay == 60

NULL == 0 - 1         \* a nullable column holding None

VARIABLES grants, history, tasks, now, room,
          bkMax, bkAttempt, bkDelays, flt, runs, db, conv

backoffVars == <<bkMax, bkAttempt, bkDelays>>
otherVars == <<room, bkMax, bkAttempt, bkDelays, flt, runs, db, conv>>
vars == <<grants, history, tasks, now, room, bkMax, bkAttempt, bkDelays, flt, runs,
          db, conv>>

\* -------------------------------------------------------------- the store
\* Grant.id is the string source + "-" + natural code; the model keeps the
\* three pieces of the concatenation as a tuple.
GrantId(source, code) == <<source, "-", code>>

Sources == {"BOE", "BDNS", "PLACSP"}
Codes == {"c1", "c2"}

NoCode == "None"      \* a nullable text column holding None

\* A Grant row as the capture services create it: the natural code of the
\* source goes to the column of that source, the other two stay None.
NewGrant(source, code, nonprofit, open) ==
  [id |-> GrantId(source, code), source |-> source,
   boe_id |-> IF source = "BOE" THEN code ELSE NoCode,
   bdns_code |-> IF source = "BDNS" THEN code ELSE NoCode,
   placsp_folder_id |-> IF source = "PLACSP" THEN code ELSE NoCode,
   is_open |-> open, is_nonprofit |-> nonprofit,
   sent_to_n8n |-> FALSE, sent_to_n8n_at |-> NULL,
   google_sheets_exported |-> FALSE, google_sheets_exported_at |-> NULL,
   google_sheets_row_id |-> NoCode, google_sheets_url |-> NoCode]

\* db.query(Grant).filter(Grant.id == grant_id).first()
FindGrant(store, id) == {g \in store : g.id = id}

\* grant.sent_to_n8n = True; grant.sent_to_n8n_at = datetime.now(); commit
MarkSent(store, id, t) ==
  {IF g.id = id THEN [g EXCEPT !.sent_to_n8n = TRUE, !.sent_to_n8n_at = t] ELSE g
     : g \in store}

\* ---------------------------------------------------------------- backoff
RECURSIVE Pow2(_)
Pow2(n) == IF n <= 0 THEN 1 ELSE 2 * Pow2(n - 1)

Min(a, b) == IF a <= b THEN a ELSE b

\* A backoff without its ceiling.
retry_delay_without_ceiling(attempt) == base_delay * Pow2(attempt - 1)

\* A backoff whose exponent starts at 1 instead of 0.
retry_delay_exponent_off_by_one(attempt) == Min(base_delay * Pow2(attempt), max_delay)

_calculate_retry_delay(attempt) == Min(base_delay * Pow2(attempt - 1), max_delay)

_calculate_next_retry_at(attempt, t) == t + _calculate_retry_delay(attempt)

\* --------------------------------------------------------------- delivery
\* WebhookHistory row written by send_grant_with_retry before the first POST.
NewHistory(grant_id, mr) ==
  [grant_id |-> grant_id, attempt_number |-> 1, max_retries |-> mr,
   status |-> "pending", http_status_code |-> NULL, next_retry_at |-> NULL]

\* What one awaited POST can come back with: 2xx with a readable body, 2xx
\* whose non-empty body is not JSON (response.json() raises), an error status
\* below 500, a 5xx status, a transport error or timeout.
Outcomes == {"ok", "ok_badbody", "client_error", "server_error", "transport"}

StatusCode(o) ==
  CASE o \in {"ok", "ok_badbody"} -> 200
    [] o = "client_error" -> 404
    [] o = "server_error" -> 503
    [] OTHER -> NULL

\* max_retries = max_retries or self.max_retries
EffectiveMax(mr) == IF mr = 0 THEN max_retries ELSE mr

\* A handler in flight.  kind names the entry point:
\*   "send_retry"   N8nServiceEnhanced.send_grant_with_retry
\*   "batch_retry"  N8nServiceEnhanced.send_multiple_grants
\*   "sweep"        N8nServiceEnhanced.retry_failed_webhooks
\*   "send"         N8nService.send_grant
\*   "batch"        N8nService.send_multiple_grants
\*   "resend"       N8nService.resend_failed_grants
\*   "callback"     n8n_sheets_callback
\* queue holds the items its loop has not reached yet, total / successful /
\* failed / errors its result dict (errors the grant ids of results["errors"]),
\* item the history row a sweep's loop variable holds while it re-sends it,
\* and grant_id .. wake the send it is awaiting:
\* pc = "posting" inside client.post, "sleeping" inside asyncio.sleep,
\* "done" once the handler has returned its result, "raised" once an
\* exception has left it instead.
NoGrant == <<>>

NewTask(kind, queue) ==
  [kind |-> kind, queue |-> queue, total |-> Len(queue),
   successful |-> 0, failed |-> 0, errors |-> <<>>,
   item |-> 0, grant_id |-> NoGrant, hist |-> 0, attempt |-> 0, max |-> 0,
   pc |-> "done", wake |-> NULL]

Loops == {"batch_retry", "sweep", "batch", "resend"}
UsesRetry(kind) == kind \in {"send_retry", "batch_retry", "sweep"}

\* The world a handler segment reads and writes; ok = FALSE when the segment
\* would leave the bounds of the model.
World(task) == [grants |-> grants, history |-> history, task |-> task, ok |-> TRUE]

\* The handlers whose result dict carries an "errors" list.
ListsErrors(kind) == kind \in {"batch_retry", "batch", "resend"}

\* One result dict handed back by the send of grant_id: result["success"].
Tally(t, grant_id, success) ==
  IF success THEN [t EXCEPT !.successful = @ + 1]
  ELSE [t EXCEPT !.failed = @ + 1,
                 !.errors = IF ListsErrors(t.kind) THEN Append(@, grant_id) ELSE @]

Finished(t) ==
  [t EXCEPT !.item = 0, !.grant_id = NoGrant, !.hist = 0, !.attempt = 0, !.max = 0,
            !.pc = "done", !.wake = NULL]

\* An exception leaves the send and, with no try around the awaited send in
\* the loops, the handler: nothing is returned, the rest of the queue is never
\* reached.
Raised(t) == [Finished(t) EXCEPT !.pc = "raised"]

\* send_grant_with_retry up to its first await: look the grant up, append the
\* pending history row, commit, start the POST of attempt 1.  started = FALSE
\* is the early "not found" return.  With the database unreachable the
\* lookup, which is outside the try, raises.
BeginRetrySend(w, grant_id, mr) ==
  IF db = "down"
  THEN [w |-> [w EXCEPT !.task = Raised(w.task)], started |-> TRUE, grant_id |-> grant_id]
  ELSE
  IF FindGrant(w.grants, grant_id) = {}
  THEN [w |-> w, started |-> FALSE, grant_id |-> grant_id]
  ELSE [w |-> [w EXCEPT
                 !.ok = w.ok /\ Len(w.history) < room.history,
                 !.history = Append(w.history, NewHistory(grant_id, EffectiveMax(mr))),
                 !.task = [w.task EXCEPT !.grant_id = grant_id,
                                         !.hist = Len(w.history) + 1,
                                         !.attempt = 1, !.max = EffectiveMax(mr),
                                         !.pc = "posting", !.wake = NULL]],
        started |-> TRUE, grant_id |-> grant_id]

\* N8nService.send_grant up to its await: no history row is written.  The
\* lookup is outside the try here too.
BeginBasicSend(w, grant_id) ==
  IF db = "down"
  THEN [w |-> [w EXCEPT !.task = Raised(w.task)], started |-> TRUE, grant_id |-> grant_id]
  ELSE
  IF FindGrant(w.grants, grant_id) = {}
  THEN [w |-> w, started |-> FALSE, grant_id |-> grant_id]
  ELSE [w |-> [w EXCEPT
                 !.task = [w.task EXCEPT !.grant_id = grant_id, !.hist = 0,
                                         !.attempt = 1, !.max = 1,
                                         !.pc = "posting", !.wake = NULL]],
        started |-> TRUE, grant_id |-> grant_id]

\* The loop of a batch, sweep or resend from its next item to its next await
\* (a started POST) or to its return; a sweep item is a history row, which
\* hands over its grant_id and max_retries.
RECURSIVE RunLoop(_)
RunLoop(w) ==
  LET t == w.task IN
  IF t.queue = <<>>
  THEN [w EXCEPT !.task = Finished(t)]
  ELSE
    LET item == Head(t.queue)
        w1 == [w EXCEPT !.task.queue = Tail(t.queue),
                        !.task.item = IF t.kind = "sweep" THEN item ELSE 0]
        b == CASE t.kind = "sweep" ->
                    BeginRetrySend(w1, w.history[item].grant_id,
                                   w.history[item].max_retries)
               [] t.kind = "batch_retry" -> BeginRetrySend(w1, item, 0)
               [] OTHER -> BeginBasicSend(w1, item)
    IN IF b.started THEN b.w
       ELSE RunLoop([w1 EXCEPT !.task = Tally(w1.task, b.grant_id, FALSE)])

\* A send returns its result dict: to the caller of a single send, or to the
\* loop that awaited it, which counts it and goes on.
Return(w, success) ==
  LET w1 == [w EXCEPT !.task = Tally(Finished(w.task), w.task.grant_id, success)]
  IN IF w.task.kind \in Loops THEN RunLoop(w1) ELSE w1

\* send_grant_with_retry from the POST's completion to the next await or return.
\* Every path commits before it returns or sleeps; with the database
\* unreachable the commit raises, inside the try (where "except Exception"
\* commits again) or inside an except clause, and the exception leaves the send.
RetryResponse(w, o, t) ==
  LET call == w.task
      h == call.hist
      retryable == call.attempt < call.max /\ o \in {"server_error", "transport"}
  IN CASE db = "down" -> [w EXCEPT !.task = Raised(call)]
       [] o = "ok" ->
            Return([w EXCEPT !.grants = MarkSent(w.grants, call.grant_id, t),
                             !.history[h].status = "success",
                             !.history[h].http_status_code = StatusCode(o)],
                   TRUE)
       [] o = "ok_badbody" ->
            \* the flag is committed, then response.json() raises into
            \* "except Exception"
            Return([w EXCEPT !.grants = MarkSent(w.grants, call.grant_id, t),
                             !.history[h].attempt_number = call.attempt,
                             !.history[h].http_status_code = StatusCode(o),
                             !.history[h].status = "failed"],
                   FALSE)
       [] retryable ->
            [w EXCEPT !.history[h].attempt_number = call.attempt,
                      !.history[h].http_status_code =
                          IF o = "server_error" THEN StatusCode(o) ELSE @,
                      !.history[h].status = "retrying",
                      !.history[h].next_retry_at =
                          _calculate_next_retry_at(call.attempt, t),
                      !.task.pc = "sleeping",
                      !.task.wake = t + _calculate_retry_delay(call.attempt)]
       [] OTHER ->
            Return([w EXCEPT !.history[h].attempt_number = call.attempt,
                             !.history[h].http_status_code =
                                 IF o = "transport" THEN @ ELSE StatusCode(o),
                             !.history[h].status = "failed"],
                   FALSE)

\* N8nService.send_grant from the POST's completion to its return.  Its
\* commit is inside the try: a failing commit is answered with success = False.
BasicResponse(w, o, t) ==
  IF db = "down" THEN Return(w, FALSE)
  ELSE
  IF o \in {"ok", "ok_badbody"}
  THEN Return([w EXCEPT !.grants = MarkSent(w.grants, w.task.grant_id, t)], o = "ok")
  ELSE Return(w, FALSE)

One(t) == SetToBag({t})

\* The segment's writes are committed and the handler `old` continues as w.task.
Commit(old, w) ==
  /\ w.ok
  /\ grants' = w.grants
  /\ history' = w.history
  /\ tasks' = (tasks (-) old) (+) One(w.task)

Spawn(w) ==
  /\ BagCardinality(tasks) < room.tasks
  /\ Commit(EmptyBag, w)
  /\ UNCHANGED <<now, otherVars>>

KnownIds == {GrantId("BDNS", "c1"), GrantId("BOE", "c1"), GrantId("PLACSP", "c1")}

\* Entry points ----------------------------------------------------------
SendGrantWithRetry(grant_id, mr) ==
  LET b == BeginRetrySend(World(NewTask("send_retry", <<>>)), grant_id, mr)
  IN Spawn(IF b.started THEN b.w ELSE [b.w EXCEPT !.task = Tally(b.w.task, grant_id, FALSE)])

SendGrant(grant_id) ==
  LET b == BeginBasicSend(World(NewTask("send", <<>>)), grant_id)
  IN Spawn(IF b.started THEN b.w ELSE [b.w EXCEPT !.task = Tally(b.w.task, grant_id, FALSE)])

Seqs(S, n) == UNION {[1..k -> S] : k \in 1..n}

\* send_multiple_grants(grant_ids) of either service
SendMultipleGrants(kind) ==
  \E q \in Seqs(KnownIds, MaxLimit) : Spawn(RunLoop(World(NewTask(kind, q))))

\* A query that also matches the rows given up as failed.
due_retries_include_failed(hs, t) ==
  {i \in 1..Len(hs) : /\ hs[i].status \in {"retrying", "failed"}
                      /\ hs[i].attempt_number <= hs[i].max_retries}

\* The rows retry_failed_webhooks' query matches.
DueRetries(hs, t) ==
  {i \in 1..Len(hs) : /\ hs[i].status = "retrying"
                      /\ hs[i].next_retry_at # NULL
                      /\ hs[i].next_retry_at <= t
                      /\ hs[i].attempt_number < hs[i].max_retries}

\* Sequences without repetition of exactly n elements of S.
Picks(S, n) ==
  {q \in [1..n -> S] : \A i, j \in 1..n : i # j => q[i] # q[j]}

\* .limit(limit).all() with no ORDER BY hands back any `limit` of the matching
\* rows in any order; an empty result returns "nothing to do" at once.
Limited(S, limit) == Picks(S, Min(limit, Cardinality(S)))

RetryFailedWebhooks ==
  \E limit \in 1..MaxLimit : \E q \in Limited(DueRetries(history, now), limit) :
    Spawn(RunLoop(World(NewTask("sweep", q))))

\* The rows resend_failed_grants' query matches.
Unsent(store) == {g.id : g \in {x \in store : ~x.sent_to_n8n /\ x.is_nonprofit}}

ResendFailedGrants ==
  \E limit \in 1..MaxLimit : \E q \in Limited(Unsent(grants), limit) :
    Spawn(RunLoop(World(NewTask("resend", q))))

\* The awaited POST of handler t completes with outcome o.
Respond(t, o) ==
  /\ BagIn(t, tasks)
  /\ t.pc = "posting"
  /\ Commit(One(t), IF UsesRetry(t.kind) THEN RetryResponse(World(t), o, now)
                    ELSE BasicResponse(World(t), o, now))
  /\ UNCHANGED <<now, otherVars>>

\* await asyncio.sleep(delay) is over: the for loop makes the next attempt.
Wake(t) ==
  /\ BagIn(t, tasks)
  /\ t.pc = "sleeping"
  /\ now >= t.wake
  /\ tasks' = (tasks (-) One(t))
              (+) One([t EXCEPT !.pc = "posting", !.attempt = @ + 1, !.wake = NULL])
  /\ UNCHANGED <<grants, history, now, otherVars>>

\* The caller has received the handler's result.
Reply(t) ==
  /\ BagIn(t, tasks)
  /\ t.pc = "done"
  /\ tasks' = tasks (-) One(t)
  /\ UNCHANGED <<grants, history, now, otherVars>>

\* Wall clock.  It is read only to stamp rows and to compare against
\* next_retry_at and the end of a sleep, so it moves from one such deadline
\* to the next.
Deadlines ==
  {t.wake : t \in {u \in BagToSet(tasks) : u.pc = "sleeping"}}
  \cup {history[i].next_retry_at :
          i \in {j \in 1..Len(history) : history[j].status = "retrying"}}

Tick ==
  /\ \E d \in Deadlines :
       /\ d > now
       /\ d <= MaxTime
       /\ \A e \in Deadlines : e > now => d <= e
       /\ now' = d
  /\ UNCHANGED <<grants, history, tasks, otherVars>>

\* The server process is restarted: every coroutine in flight is gone, the
\* committed rows stay.
Restart ==
  /\ tasks # EmptyBag
  /\ tasks' = EmptyBag
  /\ UNCHANGED <<grants, history, now, otherVars>>

BackoffIdle ==
  /\ bkMax = 0
  /\ bkAttempt = 0
  /\ bkDelays = <<>>

\* No evaluation and no capture run is going on.
EngineIdle ==
  /\ flt = <<>>
  /\ runs = EmptyBag

DeliveryGrants(np) ==
  {NewGrant("BDNS", "c1", TRUE, TRUE), NewGrant("BOE", "c1", np, TRUE)}

Room(rows, handlers) == [history |-> rows, tasks |-> handlers, runs |-> MaxRuns]

InitDelivery ==
  /\ grants = DeliveryGrants(TRUE)
  /\ history = <<>>
  /\ tasks = EmptyBag
  /\ now = 0
  /\ room = Room(MaxHistory, MaxTasks)
  /\ BackoffIdle
  /\ EngineIdle
  /\ db = "up"
  /\ conv = <<>>

\* The enhanced service: sends with retry, batches, sweeps.
NextDelivery ==
  \/ \E id \in KnownIds, mr \in {0, 2} : SendGrantWithRetry(id, mr)
  \/ SendMultipleGrants("batch_retry")
  \/ RetryFailedWebhooks
  \/ \E t \in BagToSet(tasks), o \in Outcomes : Respond(t, o)
  \/ \E t \in BagToSet(tasks) : Wake(t)
  \/ \E t \in BagToSet(tasks) : Reply(t)
  \/ Tick
  \/ Restart

SpecDelivery == InitDelivery /\ [][NextDelivery]_vars

InitResend ==
  /\ \E np \in BOOLEAN : grants = DeliveryGrants(np)
  /\ history = <<>>
  /\ tasks = EmptyBag
  /\ now = 0
  /\ room = Room(MaxHistory, MaxTasks)
  /\ BackoffIdle
  /\ EngineIdle
  /\ db = "up"
  /\ conv = <<>>

\* The basic service: plain sends, batches, operator resends.
NextResend ==
  \/ \E id \in KnownIds : SendGrant(id)
  \/ SendMultipleGrants("batch")
  \/ ResendFailedGrants
  \/ \E t \in BagToSet(tasks), o \in Outcomes : Respond(t, o)
  \/ \E t \in BagToSet(tasks) : Reply(t)
  \/ Restart

SpecResend == InitResend /\ [][NextResend]_vars

\* The operator runs resend_failed_grants again and again, a new request
\* also while an earlier one is still awaiting a POST, and every POST is
\* answered with 200 and a JSON body.  Every request is answered: client.post
\* has a timeout, and the handler goes on once its await is over.
NextOperator ==
  \/ ResendFailedGrants
  \/ \E t \in BagToSet(tasks) : Respond(t, "ok")
  \/ \E t \in BagToSet(tasks) : Reply(t)

OperatorKeepsRunning ==
  /\ WF_vars(ResendFailedGrants)
  /\ WF_vars(\E t \in BagToSet(tasks) : Respond(t, "ok"))
  /\ WF_vars(\E t \in BagToSet(tasks) : Reply(t))

SpecOperator == InitResend /\ [][NextOperator]_vars /\ OperatorKeepsRunning

\* Sends of one grant with the default and with an explicit max_retries,
\* against an endpoint that can answer anything.
NextRetry ==
  \/ \E mr \in {0, 2} : SendGrantWithRetry(GrantId("BOE", "c1"), mr)
  \/ \E t \in BagToSet(tasks), o \in Outcomes : Respond(t, o)
  \/ \E t \in BagToSet(tasks) : Wake(t)
  \/ \E t \in BagToSet(tasks) : Reply(t)
  \/ Tick

SpecRetry == InitDelivery /\ [][NextRetry]_vars

InitSweep ==
  /\ grants = DeliveryGrants(TRUE)
  /\ history = <<>>
  /\ tasks = EmptyBag
  /\ now = 0
  /\ room = Room(MaxSweepHistory, MaxSweepTasks)
  /\ BackoffIdle
  /\ EngineIdle
  /\ db = "up"
  /\ conv = <<>>

\* Sends of one grant against an endpoint that answers 2xx, 4xx or 5xx, the
\* periodic sweep, and restarts of the server.
NextSweep ==
  \/ SendGrantWithRetry(GrantId("BOE", "c1"), 0)
  \/ RetryFailedWebhooks
  \/ \E t \in BagToSet(tasks), o \in {"ok", "client_error", "server_error"} : Respond(t, o)
  \/ \E t \in BagToSet(tasks) : Wake(t)
  \/ \E t \in BagToSet(tasks) : Reply(t)
  \/ Tick
  \/ Restart

SpecSweep == InitSweep /\ [][NextSweep]_vars

\* --- the callback of the export to Google Sheets
\* An Optional[str] of the request that is None or "" is falsy.
Given(text) == text # NoCode /\ text # ""

\* A variant that takes an error report for the end of the export.
sheets_callback_error_unexports(store, request, t) ==
  {IF g.id = request.grant_id /\ request.status \in {"success", "error"}
   THEN [g EXCEPT !.google_sheets_exported = request.status = "success",
                  !.google_sheets_exported_at = t]
   ELSE g : g \in store}

\* What n8n_sheets_callback writes to the grants: on "success" the exported
\* flag and its time, and the row id and the url the request carries.
\* A callback that takes an error report as "not forwarded".
sheets_callback_error_unforwards(store, request, t) ==
  {IF g.id = request.grant_id /\ request.status = "error"
   THEN [g EXCEPT !.sent_to_n8n = FALSE]
   ELSE IF g.id = request.grant_id /\ request.status = "success"
   THEN [g EXCEPT !.google_sheets_exported = TRUE, !.google_sheets_exported_at = t]
   ELSE g : g \in store}

SheetsCallbackWrites(store, request, t) ==
  {IF g.id = request.grant_id /\ request.status = "success"
   THEN [g EXCEPT !.google_sheets_exported = TRUE,
                  !.google_sheets_exported_at = t,
                  !.google_sheets_row_id =
                      IF Given(request.row_id) THEN request.row_id ELSE @,
                  !.google_sheets_url =
                      IF Given(request.sheets_url) THEN request.sheets_url ELSE @]
   ELSE g : g \in store}

\* The handler from the request to its answer: 404 for an unknown grant and
\* 400 for an unknown status are raised as HTTPException, "success" answers
\* success = True, "error" answers success = False.
n8n_sheets_callback(w, request, t) ==
  LET call == [w.task EXCEPT !.grant_id = request.grant_id]
  IN IF FindGrant(w.grants, request.grant_id) = {}
        \/ request.status \notin {"success", "error"}
     THEN [w EXCEPT !.task = [call EXCEPT !.pc = "raised"]]
     ELSE [w EXCEPT !.grants = SheetsCallbackWrites(w.grants, request, t),
                    !.task = Tally(call, request.grant_id, request.status = "success")]

RowIds == {NoCode, "", "r1", "r2"}

SheetsUrls == {NoCode, "u1"}

CallbackRequests ==
  [grant_id : KnownIds, status : {"success", "error", "pending"},
   row_id : RowIds, sheets_url : SheetsUrls]

N8nSheetsCallback(request) ==
  Spawn(n8n_sheets_callback(World(NewTask("callback", <<>>)), request, now))

\* The caller has received the exception that left the handler.
Propagate(t) ==
  /\ BagIn(t, tasks)
  /\ t.pc = "raised"
  /\ tasks' = tasks (-) One(t)
  /\ UNCHANGED <<grants, history, now, otherVars>>

\* The database server stops answering: from now on every query and commit
\* of a session raises OperationalError.
Outage ==
  /\ db = "up"
  /\ db' = "down"
  /\ UNCHANGED <<grants, history, tasks, now, room, backoffVars, flt, runs, conv>>

\* The database server answers again.
Recover ==
  /\ db = "down"
  /\ db' = "up"
  /\ UNCHANGED <<grants, history, tasks, now, room, backoffVars, flt, runs, conv>>

\* Single sends and batches of both services while the database comes and goes.
NextOutage ==
  \/ \E id \in KnownIds : SendGrantWithRetry(id, 0)
  \/ \E id \in KnownIds : SendGrant(id)
  \/ SendMultipleGrants("batch_retry")
  \/ SendMultipleGrants("batch")
  \/ \E t \in BagToSet(tasks), o \in Outcomes : Respond(t, o)
  \/ \E t \in BagToSet(tasks) : Wake(t)
  \/ \E t \in BagToSet(tasks) : Reply(t)
  \/ \E t \in BagToSet(tasks) : Propagate(t)
  \/ Tick
  \/ Outage
  \/ Recover

InitOutage ==
  /\ grants = DeliveryGrants(TRUE)
  /\ history = <<>>
  /\ tasks = EmptyBag
  /\ now = 0
  /\ room = Room(MaxHistory, MaxOutageTasks)
  /\ BackoffIdle
  /\ EngineIdle
  /\ db = "up"
  /\ conv = <<>>

SpecOutage == InitOutage /\ [][NextOutage]_vars

\* Plain sends and the callbacks of the workflow they start.
NextCallback ==
  \/ \E id \in KnownIds : SendGrant(id)
  \/ \E t \in BagToSet(tasks), o \in Outcomes : Respond(t, o)
  \/ \E request \in CallbackRequests : N8nSheetsCallback(request)
  \/ \E t \in BagToSet(tasks) : Reply(t)
  \/ \E t \in BagToSet(tasks) : Propagate(t)

SpecCallback == InitDelivery /\ [][NextCallback]_vars

\* Sends and sweeps that keep running: a POST comes back (the client has a
\* 30 s timeout), a sleep ends, a result is handed over, the clock reaches
\* the next deadline, and the periodic sweep runs again whenever rows are due.
\* A restart of the server may happen at any time and need not happen.
InitResume ==
  /\ grants = DeliveryGrants(TRUE)
  /\ history = <<>>
  /\ tasks = EmptyBag
  /\ now = 0
  /\ room = Room(MaxResumeHistory, MaxResumeTasks)
  /\ BackoffIdle
  /\ EngineIdle
  /\ db = "up"
  /\ conv = <<>>

SweepsKeepRunning ==
  /\ WF_vars(RetryFailedWebhooks)
  /\ WF_vars(\E t \in BagToSet(tasks), o \in {"ok", "client_error", "server_error"} :
               Respond(t, o))
  /\ WF_vars(\E t \in BagToSet(tasks) : Wake(t))
  /\ WF_vars(\E t \in BagToSet(tasks) : Reply(t))
  /\ WF_vars(Tick)

SpecResume == InitResume /\ [][NextSweep]_vars /\ SweepsKeepRunning

\* ------------------------------------------------- claims about delivery
SuccessRows(id) ==
  {i \in 1..Len(history) : history[i].grant_id = id /\ history[i].status = "success"}

\* C1: in every reachable state a grant's sent_to_n8n is true if and only if
\* some history row of that grant has status "success".
C1_FlagIffSuccessRow ==
  \A g \in grants : g.sent_to_n8n <=> SuccessRows(g.id) # {}

\* C2: in every reachable state at most one history row per grant has status
\* "success".
C2_AtMostOneSuccessRow ==
  \A g \in grants : Cardinality(SuccessRows(g.id)) <= 1

\* A send on history row h is in flight: its POST is awaited or it sleeps
\* before its next attempt.
ActiveOn(bag, h) ==
  \E u \in BagToSet(bag) :
     UsesRetry(u.kind) /\ u.hist = h /\ u.pc \in {"posting", "sleeping"}

\* The delay the retry protocol is said to wait after a failed attempt.
ClaimedDelay(attempt) == Min(base_delay * 2^(attempt - 1), max_delay)

\* What the step that receives a retryable failure of attempt t.attempt does.
C8Step(t) ==
  LET row == history'[t.hist] IN
  IF t.attempt < t.max
  THEN /\ row.status = "retrying"
       /\ row.attempt_number = t.attempt
       /\ row.next_retry_at = now + ClaimedDelay(t.attempt)
       /\ \E u \in BagToSet(tasks') :
            u.hist = t.hist /\ u.pc = "sleeping" /\ u.wake = now + ClaimedDelay(t.attempt)
  ELSE /\ row.status = "failed"
       /\ row.attempt_number = t.attempt
       /\ row.next_retry_at = history[t.hist].next_retry_at
       /\ ~ActiveOn(tasks', t.hist)
       /\ \A d \in 0..MaxTime : t.hist \notin DueRetries(history', d)

\* max_retries = 3, base 2 s, ceiling 60 s: retrying after 2 s, retrying
\* after 4 s, then failed.
C8Example(t) ==
  LET row == history'[t.hist] IN
  t.max = 3 =>
    CASE t.attempt = 1 -> row.status = "retrying" /\ row.next_retry_at = now + 2
      [] t.attempt = 2 -> row.status = "retrying" /\ row.next_retry_at = now + 4
      [] OTHER -> row.status = "failed"

\* A failed row is never written again and no send works on it.
FailedStays ==
  \A i \in 1..Len(history) :
     history[i].status = "failed" => history'[i] = history[i] /\ ~ActiveOn(tasks', i)

\* C8: when an attempt of send_grant_with_retry fails with a 5xx status or a
\* transport error and attempt < max, its row becomes retrying with
\* next_retry_at = now + min(base * 2^(attempt-1), max_delay) and the call
\* sleeps that long; when the attempt numbered max fails, the row becomes
\* failed, the call returns, nothing is scheduled and the row stays as it is.
C8_RetryProtocol ==
  [][/\ \A t \in BagToSet(tasks) : \A o \in {"server_error", "transport"} :
          (UsesRetry(t.kind) /\ Respond(t, o)) => (C8Step(t) /\ C8Example(t))
     /\ FailedStays]_vars

\* Attempts 1, 2 and 3 of one send have failed at 0 s, 2 s and 6 s, the last
\* with a 5xx status.
C8_Witness ==
  \E i \in 1..Len(history) :
     /\ history[i].status = "failed"
     /\ history[i].max_retries = 3
     /\ history[i].attempt_number = 3
     /\ history[i].http_status_code = StatusCode("server_error")
     /\ history[i].next_retry_at = 6
     /\ now = 6

\* A row that a 4xx answer has made failed.
ClientFailed(h) ==
  h.status = "failed" /\ h.http_status_code = StatusCode("client_error")

\* What the step that receives a 4xx answer does.
C9Step(t) ==
  LET row == history'[t.hist] IN
  /\ row.status = "failed"
  /\ row.attempt_number = t.attempt
  /\ row.next_retry_at = history[t.hist].next_retry_at
  /\ ~ActiveOn(tasks', t.hist)
  /\ \A d \in 0..MaxTime : t.hist \notin DueRetries(history', d)
  /\ grants' = grants

\* The sweep t goes on to the item i of its result list and sends its grant
\* again: the send in flight returns and a new history row is written.
SweepTakes(t, i) ==
  /\ t.kind = "sweep"
  /\ t.queue # <<>>
  /\ Head(t.queue) = i
  /\ \E o \in Outcomes : Respond(t, o)
  /\ Len(history') = Len(history) + 1

\* C9: a 4xx answer makes the delivery failed in that step, schedules no
\* retry and leaves sent_to_n8n as it was, and no sweep ever sends again for
\* a row that a 4xx answer has made failed.
C9_ClientErrorTerminal ==
  [][/\ \A t \in BagToSet(tasks) :
          (UsesRetry(t.kind) /\ Respond(t, "client_error")) => C9Step(t)
     /\ \A t \in BagToSet(tasks) : \A i \in 1..Len(history) :
          SweepTakes(t, i) => ~ClientFailed(history[i])]_vars

\* A step of the sweep that writes a new history row: the sweep starts, or the
\* send it awaits returns and its loop goes on to its next item.
SweepAddsRow ==
  /\ \/ RetryFailedWebhooks
     \/ \E t \in BagToSet(tasks), o \in Outcomes : t.kind = "sweep" /\ Respond(t, o)
  /\ Len(history') = Len(history) + 1

\* C11: the attempt numbers recorded for a grant only grow and stay within
\* max_retries: no row's attempt number ever decreases or exceeds the row's
\* max_retries, and the row a sweep-driven re-attempt writes carries a number
\* greater than every number recorded for that grant before.
C11_AttemptsIncrease ==
  [][/\ \A i \in 1..Len(history) :
          /\ i <= Len(history')
          /\ history[i].attempt_number <= history'[i].attempt_number
          /\ history'[i].attempt_number <= history'[i].max_retries
     /\ SweepAddsRow =>
          \A i \in 1..Len(history) :
             history[i].grant_id = history'[Len(history')].grant_id
               => history[i].attempt_number < history'[Len(history')].attempt_number]_vars

\* C12: history is append-only.  A row that holds the outcome of an attempt
\* (its status is no longer pending) is never changed or removed, and every
\* further request a send makes after a sleep adds a row of its own.
C12_HistoryAppendOnly ==
  [][/\ \A i \in 1..Len(history) :
          history[i].status # "pending" => i <= Len(history') /\ history'[i] = history[i]
     /\ \A t \in BagToSet(tasks) : Wake(t) => Len(history') = Len(history) + 1]_vars

Batches == {"batch_retry", "batch"}

\* C13: a batch is never aborted by one item: no exception leaves
\* send_multiple_grants, and when it returns every id has been attempted and
\* its stats satisfy total = N = successful + failed with one error entry per
\* failed item.
C13_BatchNeverAborts ==
  \A t \in BagToSet(tasks) :
     t.kind \in Batches =>
       /\ t.pc # "raised"
       /\ t.pc = "done" =>
            /\ t.queue = <<>>
            /\ t.total = t.successful + t.failed
            /\ Len(t.errors) = t.failed

\* C14: a single delivery call never raises to its caller: whatever happens,
\* send_grant_with_retry and send_grant end by returning one result whose
\* success is true or false.
C14_SendNeverRaises ==
  \A t \in BagToSet(tasks) :
     t.kind \in {"send_retry", "send"} =>
       /\ t.pc # "raised"
       /\ t.pc = "done" => t.successful + t.failed = 1

\* ------------------------------------------------- the backoff function
\* _calculate_retry_delay applied to attempts 1..bkMax, one after the other.
InitBackoff ==
  /\ grants = {}
  /\ history = <<>>
  /\ tasks = EmptyBag
  /\ now = 0
  /\ room = Room(0, 0)
  /\ bkMax \in 1..MaxRetriesArg
  /\ bkAttempt = 0
  /\ bkDelays = <<>>
  /\ EngineIdle
  /\ db = "up"
  /\ conv = <<>>

CalculateRetryDelay ==
  /\ bkAttempt < bkMax
  /\ bkAttempt' = bkAttempt + 1
  /\ bkDelays' = Append(bkDelays, _calculate_retry_delay(bkAttempt + 1))
  /\ UNCHANGED <<grants, history, tasks, now, room, bkMax, flt, runs, db, conv>>

NextBackoff == CalculateRetryDelay

SpecBackoff == InitBackoff /\ [][NextBackoff]_vars

\* C10: for attempts 1..max the delay is min(base * 2^(attempt-1), max_delay),
\* it never decreases from one attempt to the next and never exceeds max_delay.
C10_BackoffMonotone ==
  \A i \in 1..Len(bkDelays) :
     /\ bkDelays[i] = ClaimedDelay(i)
     /\ bkDelays[i] <= max_delay
     /\ i > 1 => bkDelays[i - 1] <= bkDelays[i]

\* The delays have grown up to the ceiling and stayed there.
C10_Witness ==
  /\ Len(bkDelays) >= 7
  /\ bkDelays[5] < bkDelays[6]
  /\ bkDelays[6] = max_delay
  /\ bkDelays[7] = max_delay

\* ------------------------------------------------------------ rule engine
\* A text is a sequence of one-character strings.  A score or a threshold is
\* an exact fraction [n, d] with d > 0; a weight is a whole number.
RECURSIVE Gcd(_, _)
Gcd(a, b) == IF b = 0 THEN a ELSE Gcd(b, a % b)

\* The fraction n / d in lowest terms (n >= 0, d > 0).
Frac(n, d) == [n |-> n \div Gcd(d, n), d |-> d \div Gcd(d, n)]

FracAdd(a, b) == Frac(a.n * b.d + b.n * a.d, a.d * b.d)

FracTimes(a, k) == Frac(a.n * k, a.d)

FracOver(a, k) == Frac(a.n, a.d * k)

FracLe(a, b) == a.n * b.d <= b.n * a.d

FracEq(a, b) == a.n * b.d = b.n * a.d

FracMin(a, b) == IF FracLe(a, b) THEN a ELSE b

FracMax(a, b) == IF FracLe(a, b) THEN b ELSE a

Abs(x) == IF x < 0 THEN 0 - x ELSE x

\* str.lower() on the letters the texts of the model are written with.
LowerChar(c) ==
  CASE c = "A" -> "a" [] c = "G" -> "g" [] c = "N" -> "n" [] c = "O" -> "o"
    [] c = "S" -> "s" [] OTHER -> c

Lower(text) == [i \in 1..Len(text) |-> LowerChar(text[i])]

\* keyword in text
Contains(text, keyword) ==
  \E i \in 0..(Len(text) - Len(keyword)) :
     SubSeq(text, i + 1, i + Len(keyword)) = keyword

\* " ".join(parts)
RECURSIVE Join(_)
Join(parts) ==
  IF parts = <<>> THEN <<>>
  ELSE IF Len(parts) = 1 THEN parts[1]
  ELSE parts[1] \o <<" ">> \o Join(Tail(parts))

\* str(n) of a whole number n >= 0
Digit(n) ==
  CASE n = 0 -> "0" [] n = 1 -> "1" [] n = 2 -> "2" [] n = 3 -> "3" [] n = 4 -> "4"
    [] n = 5 -> "5" [] n = 6 -> "6" [] n = 7 -> "7" [] n = 8 -> "8" [] OTHER -> "9"

RECURSIVE Str(_)
Str(n) == IF n < 10 THEN <<Digit(n)>> ELSE Str(n \div 10) \o <<Digit(n % 10)>>

\* The keywords of the list found in the text, in the order of the list.
KeywordMatches(text, keywords) ==
  SelectSeq(keywords, LAMBDA k : Contains(Lower(text), Lower(k)))

RuleOutcome(passed, score, matches) ==
  [raised |-> FALSE, passed |-> passed, score |-> score, matches |-> matches]

RuleRaised == [raised |-> TRUE, passed |-> FALSE, score |-> Frac(0, 1), matches |-> <<>>]

_apply_include_filter(text, keywords) ==
  LET matches == KeywordMatches(text, keywords)
  IN RuleOutcome(Len(matches) > 0,
                 IF keywords # <<>> THEN Frac(Len(matches), Len(keywords)) ELSE Frac(0, 1),
                 matches)

_apply_exclude_filter(text, keywords) ==
  LET matches == KeywordMatches(text, keywords)
  IN RuleOutcome(Len(matches) = 0,
                 IF matches # <<>> THEN Frac(0, 1) ELSE Frac(1, 1),
                 matches)

\* re.findall of a pattern without metacharacters: its occurrences from left
\* to right, none overlapping the one before.
RECURSIVE FindAll(_, _)
FindAll(literal, text) ==
  IF Len(text) < Len(literal) THEN <<>>
  ELSE IF SubSeq(text, 1, Len(literal)) = literal
       THEN <<literal>> \o FindAll(literal, SubSeq(text, Len(literal) + 1, Len(text)))
       ELSE FindAll(literal, Tail(text))

\* A pattern is [valid, overflow, literal]: one that compiles, made of the
\* letters of literal; one that re rejects with re.error, which is caught; or
\* one whose repetition count re rejects with OverflowError, which is not.
_apply_regex_filter(text, pattern) ==
  IF pattern.valid
  THEN LET matches == FindAll(Lower(pattern.literal), Lower(text))
       IN RuleOutcome(Len(matches) > 0, FracMin(Frac(Len(matches), 3), Frac(1, 1)), matches)
  ELSE IF pattern.overflow THEN RuleRaised
  ELSE RuleOutcome(FALSE, Frac(0, 1), <<>>)

\* A field of grant_info that holds None, and the extracted_info argument:
\* left out, or a dict whose "amounts" list holds amounts below 1000 written
\* without separators.
None == <<"None">>

NoExtract == [given |-> FALSE, amounts |-> <<>>]

Extract(amounts) == [given |-> TRUE, amounts |-> amounts]

\* ZeroDivisionError when the range is a single point and an amount hits it.
_apply_amount_filter(extracted_info, amount_criteria) ==
  LET lo == amount_criteria.min
      hi == amount_criteria.max
      inside == SelectSeq(extracted_info.amounts, LAMBDA a : lo <= a /\ a <= hi)
  IN IF inside = <<>> THEN RuleOutcome(FALSE, Frac(0, 1), <<>>)
     ELSE IF hi = lo THEN RuleRaised
     ELSE RuleOutcome(TRUE,
                      FracMax(Frac(3, 10),
                              Frac(2 * (hi - lo) - Abs(2 * Head(inside) - lo - hi),
                                   2 * (hi - lo))),
                      <<>>)

_apply_department_filter(grant_info, departments) ==
  LET matches == KeywordMatches(grant_info.department, departments)
  IN RuleOutcome(Len(matches) > 0,
                 IF departments # <<>> THEN Frac(Len(matches), Len(departments)) ELSE Frac(0, 1),
                 matches)

\* The branch of evaluate_grant's if / elif chain that a rule takes; a rule no
\* branch takes keeps passed = False, score = 0.0.
ApplyRule(rule, full_text, grant_info, extracted_info) ==
  CASE rule.filter_type = "include" -> _apply_include_filter(full_text, rule.value)
    [] rule.filter_type = "exclude" -> _apply_exclude_filter(full_text, rule.value)
    [] rule.filter_type = "regex" -> _apply_regex_filter(full_text, rule.value)
    [] rule.filter_type = "amount" /\ extracted_info.given ->
         _apply_amount_filter(extracted_info, rule.value)
    [] rule.filter_type = "department" -> _apply_department_filter(grant_info, rule.value)
    [] OTHER -> RuleOutcome(FALSE, Frac(0, 1), <<>>)

FullText(grant_info, extracted_info) ==
  Join(<<grant_info.title, grant_info.department, grant_info.section, grant_info.epigraph>>)
  \o (IF extracted_info.given
      THEN <<" ">> \o Join([i \in 1..Len(extracted_info.amounts) |->
                              Str(extracted_info.amounts[i])])
      ELSE <<>>)

RECURSIVE SumWeights(_)
SumWeights(rules) ==
  IF rules = <<>> THEN 0 ELSE Head(rules).weight + SumWeights(Tail(rules))

\* weighted_score_sum: score * weight of the rules that passed.
RECURSIVE WeightedScoreSum(_, _)
WeightedScoreSum(rules, results) ==
  IF rules = <<>> THEN Frac(0, 1)
  ELSE LET rest == WeightedScoreSum(Tail(rules), Tail(results))
       IN IF Head(results).passed
          THEN FracAdd(FracTimes(Head(results).score, Head(rules).weight), rest)
          ELSE rest

EvaluationRaised == [raised |-> TRUE]

\* evaluate_grant: ValueError for an unknown profile, TypeError from join
\* when a text field holds None, whatever a rule raises; else the result dict.
\* A variant that normalises by nothing: the weighted sum itself is the score.
total_score_not_normalised(weighted_score_sum, total_weight) == weighted_score_sum

\* total_score = weighted_score_sum / total_weight if total_weight > 0 else 0.0
TotalScore(weighted_score_sum, total_weight) ==
  IF total_weight > 0 THEN FracOver(weighted_score_sum, total_weight) ELSE Frac(0, 1)

\* A variant in which one required rule that passed is enough.
required_passed_if_any(required_rules_passed, required_rules_total) ==
  required_rules_total = 0 \/ required_rules_passed > 0

\* required_passed = required_rules_total == 0 or
\*                   required_rules_passed == required_rules_total
RequiredPassed(required_rules_passed, required_rules_total) ==
  required_rules_total = 0 \/ required_rules_passed = required_rules_total

evaluate_grant(profiles, grant_info, profile_name, extracted_info) ==
  IF profile_name \notin DOMAIN profiles THEN EvaluationRaised
  ELSE IF None \in {grant_info.title, grant_info.department,
                    grant_info.section, grant_info.epigraph}
  THEN EvaluationRaised
  ELSE
    LET profile == profiles[profile_name]
        rules == profile.rules
        full_text == FullText(grant_info, extracted_info)
        rule_results == [i \in 1..Len(rules) |->
                           ApplyRule(rules[i], full_text, grant_info, extracted_info)]
        total_weight == SumWeights(rules)
        weighted_score_sum == WeightedScoreSum(rules, rule_results)
        required_rules_total == Cardinality({i \in 1..Len(rules) : rules[i].required})
        required_rules_passed ==
          Cardinality({i \in 1..Len(rules) : rules[i].required /\ rule_results[i].passed})
        total_score == TotalScore(weighted_score_sum, total_weight)
        required_passed == RequiredPassed(required_rules_passed, required_rules_total)
        score_passed == FracLe(profile.min_score, total_score)
    IN IF \E i \in 1..Len(rules) : rule_results[i].raised THEN EvaluationRaised
       ELSE [raised |-> FALSE,
             passed |-> required_passed /\ score_passed,
             total_score |-> total_score,
             min_score_required |-> profile.min_score,
             rule_results |-> rule_results,
             required_rules_passed |-> required_rules_passed,
             required_rules_total |-> required_rules_total]

\* best_match = None
NoProfile == "None"

\* evaluate_multiple_profiles: the profiles are evaluated in the order of
\* profile_names; an evaluation that raises leaves an error entry; a profile
\* becomes the best match when its score is strictly above the best so far.
RECURSIVE evaluate_multiple_profiles(_, _, _, _)
evaluate_multiple_profiles(profiles, grant_info, profile_names, extracted_info) ==
  IF profile_names = <<>>
  THEN [best_match |-> NoProfile, best_score |-> Frac(0, 1),
        passed_profiles |-> <<>>,
        all_results |-> [n \in {} |-> EvaluationRaised]]
  ELSE
    LET k == Len(profile_names)
        profile_name == profile_names[k]
        results == evaluate_multiple_profiles(profiles, grant_info,
                                              SubSeq(profile_names, 1, k - 1),
                                              extracted_info)
        profile_result == evaluate_grant(profiles, grant_info, profile_name, extracted_info)
        stored == [n \in DOMAIN results.all_results \cup {profile_name} |->
                     IF n = profile_name THEN profile_result ELSE results.all_results[n]]
    IN IF profile_result.raised
       THEN [results EXCEPT !.all_results = stored]
       ELSE
         LET better == ~FracLe(profile_result.total_score, results.best_score)
         IN [best_match |-> IF better THEN profile_name ELSE results.best_match,
             best_score |-> IF better THEN profile_result.total_score
                            ELSE results.best_score,
             passed_profiles |-> IF profile_result.passed
                                 THEN Append(results.passed_profiles, profile_name)
                                 ELSE results.passed_profiles,
             all_results |-> stored]

\* -------------------------------------------- one evaluation of a record
KwOng == <<"o", "n", "g">>

KwSa == <<"s", "a">>

FilterTitles ==
  {<<"O", "N", "G">>, <<"s", "a">>, <<"O", "N", "G", " ", "s", "a">>, <<"x">>}

FilterDepartments == {<<>>, <<"o", "n", "g">>}

GrantInfo(title, department) ==
  [title |-> title, department |-> department, section |-> <<>>, epigraph |-> <<>>]

\* The kinds of rule of FilterType with the values the profiles are drawn
\* from: keyword lists, a pattern that compiles and two that do not, an
\* amount range, a range of one point.
RuleKinds ==
  {[filter_type |-> "include", value |-> <<KwOng, KwSa>>],
   [filter_type |-> "exclude", value |-> <<KwSa>>],
   [filter_type |-> "regex",
    value |-> [valid |-> TRUE, overflow |-> FALSE, literal |-> KwOng]],
   [filter_type |-> "regex",
    value |-> [valid |-> FALSE, overflow |-> FALSE, literal |-> <<"(">>]],
   [filter_type |-> "regex",
    value |-> [valid |-> FALSE, overflow |-> TRUE,
               literal |-> <<"a", "{", "4294967296", "}">>]],
   [filter_type |-> "amount", value |-> [min |-> 0, max |-> 10]],
   [filter_type |-> "amount", value |-> [min |-> 5, max |-> 5]],
   [filter_type |-> "sector", value |-> <<>>],
   [filter_type |-> "department", value |-> <<KwOng>>]}

FilterRule(kind, weight, required) ==
  [filter_type |-> kind.filter_type, value |-> kind.value,
   weight |-> weight, required |-> required]

Rules(max_weight) ==
  {FilterRule(k, w, r) : k \in RuleKinds, w \in 0..max_weight, r \in BOOLEAN}

FilterProfile(rules, min_score) == [rules |-> rules, min_score |-> min_score]

MinScores == {Frac(0, 1), Frac(1, 2), Frac(1, 1)}

Profiles(max_rules, max_weight) ==
  {FilterProfile(rs, m) : rs \in {<<>>} \cup Seqs(Rules(max_weight), max_rules),
                          m \in MinScores}

\* add_profile stores the profile under its name, whatever its rules.
add_profile(profiles, name, profile) ==
  [n \in DOMAIN profiles \cup {name} |-> IF n = name THEN profile ELSE profiles[n]]

NoProfiles == [n \in {} |-> FilterProfile(<<>>, Frac(0, 1))]

InitFilter ==
  /\ grants = {}
  /\ history = <<>>
  /\ tasks = EmptyBag
  /\ now = 0
  /\ room = Room(0, 0)
  /\ BackoffIdle
  /\ runs = EmptyBag
  /\ db = "up"
  /\ conv = <<>>
  /\ \E profile \in Profiles(MaxRules, MaxWeight), title \in FilterTitles, department \in FilterDepartments,
        extracted_info \in {NoExtract, Extract(<<5>>)} :
       flt = [profiles |-> add_profile(NoProfiles, "p", profile),
              grant_info |-> GrantInfo(title, department),
              extracted_info |-> extracted_info,
              pc |-> "call",
              result |-> EvaluationRaised]

EvaluateGrant ==
  /\ flt.pc = "call"
  /\ flt' = [flt EXCEPT !.pc = "returned",
                        !.result = evaluate_grant(flt.profiles, flt.grant_info, "p",
                                                  flt.extracted_info)]
  /\ UNCHANGED <<grants, history, tasks, now, room, backoffVars, runs, db, conv>>

NextFilter == EvaluateGrant

SpecFilter == InitFilter /\ [][NextFilter]_vars

\* ------------------------------------ the worked example of a profile
\* The profile [include "fundación" weight 2 required, exclude "sociedad
\* anónima" weight 1] with min_score 0.5, and records to evaluate against it.
KwFundacion ==
  <<"f", "u", "n", "d", "a", "c", "i", "ó", "n">>

KwSociedadAnonima ==
  <<"s", "o", "c", "i", "e", "d", "a", "d", " ", "a", "n", "ó", "n", "i",
    "m", "a">>

TitleFundaciones ==
  <<"A", "y", "u", "d", "a", "s", " ", "p", "a", "r", "a", " ", "f", "u",
    "n", "d", "a", "c", "i", "o", "n", "e", "s", " ", "c", "u", "l", "t",
    "u", "r", "a", "l", "e", "s">>

TitleSociedad ==
  <<"A", "y", "u", "d", "a", "s", " ", "p", "a", "r", "a", " ", "s", "o",
    "c", "i", "e", "d", "a", "d", " ", "a", "n", "ó", "n", "i", "m", "a">>

TitleFundacion ==
  <<"A", "y", "u", "d", "a", "s", " ", "p", "a", "r", "a", " ", "l", "a",
    " ", "f", "u", "n", "d", "a", "c", "i", "ó", "n", " ", "c", "u", "l",
    "t", "u", "r", "a", "l">>

TitleBoth ==
  <<"A", "y", "u", "d", "a", "s", " ", "p", "a", "r", "a", " ", "l", "a",
    " ", "f", "u", "n", "d", "a", "c", "i", "ó", "n", " ", "d", "e", " ",
    "u", "n", "a", " ", "s", "o", "c", "i", "e", "d", "a", "d", " ", "a",
    "n", "ó", "n", "i", "m", "a">>

TitleOng ==
  <<"A", "y", "u", "d", "a", "s", " ", "p", "a", "r", "a", " ", "O", "N",
    "G">>

TitleSa ==
  <<"A", "y", "u", "d", "a", "s", " ", "p", "a", "r", "a", " ", "S", "A">>

ExampleProfile ==
  FilterProfile(
    <<FilterRule([filter_type |-> "include", value |-> <<KwFundacion>>], 2, TRUE),
      FilterRule([filter_type |-> "exclude", value |-> <<KwSociedadAnonima>>], 1, FALSE)>>,
    Frac(1, 2))

ExampleTitles ==
  {TitleFundaciones, TitleSociedad, TitleFundacion, TitleBoth, TitleOng, TitleSa}

ExampleDepartments == {<<>>, KwOng, KwSa, KwFundacion, KwSociedadAnonima}

InitExample ==
  /\ grants = {}
  /\ history = <<>>
  /\ tasks = EmptyBag
  /\ now = 0
  /\ room = Room(0, 0)
  /\ BackoffIdle
  /\ runs = EmptyBag
  /\ db = "up"
  /\ conv = <<>>
  /\ \E title \in ExampleTitles, department \in ExampleDepartments,
        extracted_info \in {NoExtract, Extract(<<5>>)} :
       flt = [profiles |-> add_profile(NoProfiles, "p", ExampleProfile),
              grant_info |-> GrantInfo(title, department),
              extracted_info |-> extracted_info,
              pc |-> "call",
              result |-> EvaluationRaised]

SpecExample == InitExample /\ [][NextFilter]_vars

\* ------------------------------- one record against several profiles
\* Two profiles "p" and "q" of at most MaxProfileRules rules each; the list
\* of names may hold a name no profile was added under.
ProfileNames == {<<"p", "q">>, <<"p", "z", "q">>}

InitProfiles ==
  /\ grants = {}
  /\ history = <<>>
  /\ tasks = EmptyBag
  /\ now = 0
  /\ room = Room(0, 0)
  /\ BackoffIdle
  /\ runs = EmptyBag
  /\ db = "up"
  /\ conv = <<>>
  /\ \E p \in Profiles(MaxProfileRules, MaxProfileWeight),
        q \in Profiles(MaxProfileRules, MaxProfileWeight),
        title \in FilterTitles, department \in FilterDepartments,
        extracted_info \in {NoExtract, Extract(<<5>>)},
        profile_names \in ProfileNames :
       flt = [profiles |-> add_profile(add_profile(NoProfiles, "p", p), "q", q),
              grant_info |-> GrantInfo(title, department),
              extracted_info |-> extracted_info,
              profile_names |-> profile_names,
              pc |-> "call",
              result |-> EvaluationRaised]

EvaluateMultipleProfiles ==
  /\ flt.pc = "call"
  /\ flt' = [flt EXCEPT !.pc = "returned",
                        !.result = evaluate_multiple_profiles(
                                     flt.profiles, flt.grant_info, flt.profile_names,
                                     flt.extracted_info)]
  /\ UNCHANGED <<grants, history, tasks, now, room, backoffVars, runs, db, conv>>

NextProfiles == EvaluateMultipleProfiles

SpecProfiles == InitProfiles /\ [][NextProfiles]_vars

\* ------------------------------------------------- claims about the filter
Returned == flt.pc = "returned" /\ ~flt.result.raised

EvaluatedRules == flt.profiles["p"].rules

RequiredFailed ==
  {i \in 1..Len(EvaluatedRules) :
     EvaluatedRules[i].required /\ ~flt.result.rule_results[i].passed}

\* C4: a profile of which a required rule fails on a grant is failed by that
\* grant, whatever the weighted score of the grant is.
C4_RequiredRuleVeto == (Returned /\ RequiredFailed # {}) => ~flt.result.passed

\* A required rule failed although the score reaches a positive threshold.
C4_Witness ==
  /\ Returned
  /\ RequiredFailed # {}
  /\ flt.result.min_score_required.n > 0
  /\ FracLe(flt.result.min_score_required, flt.result.total_score)
  /\ ~flt.result.passed

PassedRuleProducts ==
  LET rules == EvaluatedRules
      results == flt.result.rule_results
      upto[k \in 0..Len(rules)] ==
        IF k = 0 THEN Frac(0, 1)
        ELSE IF results[k].passed
             THEN FracAdd(upto[k - 1], FracTimes(results[k].score, rules[k].weight))
             ELSE upto[k - 1]
  IN upto[Len(rules)]

AllRuleWeights ==
  LET rules == EvaluatedRules
      upto[k \in 0..Len(rules)] == IF k = 0 THEN 0 ELSE upto[k - 1] + rules[k].weight
  IN upto[Len(rules)]

\* C5: the total score is the sum of score times weight over the rules that
\* passed, divided by the sum of the weights of all the rules, and 0 when that
\* sum of weights is 0; the profile passes exactly when every required rule
\* passed and the total score is at least the minimum score of the profile.
C5_WeightedAggregate ==
  Returned =>
    /\ IF AllRuleWeights = 0
       THEN FracEq(flt.result.total_score, Frac(0, 1))
       ELSE FracEq(FracTimes(flt.result.total_score, AllRuleWeights), PassedRuleProducts)
    /\ flt.result.passed <=>
         /\ RequiredFailed = {}
         /\ FracLe(flt.profiles["p"].min_score, flt.result.total_score)

\* A passed rule with a partial score next to a failed rule of positive weight:
\* the failed rule's weight pulls the total below the passed rule's score, and
\* the profile still passes its threshold.
C5_Witness ==
  /\ Returned
  /\ \E i, j \in 1..Len(EvaluatedRules) :
       /\ flt.result.rule_results[i].passed
       /\ EvaluatedRules[i].weight > 0
       /\ ~flt.result.rule_results[j].passed
       /\ EvaluatedRules[j].weight > 0
       /\ ~FracLe(flt.result.rule_results[i].score, flt.result.total_score)
  /\ flt.result.min_score_required.n > 0
  /\ flt.result.passed

\* ---------------------------------------------------------------- capture
\* The counters of a run.  BOE reports total_scanned, total_new, total_updated
\* and total_nonprofit; BDNS total_fetched .. total_errors; PLACSP those and
\* pages_processed.  A counter a source does not report stays 0.
ZeroStats ==
  [total_scanned |-> 0, total_fetched |-> 0, total_nonprofit |-> 0, total_new |-> 0,
   total_updated |-> 0, total_skipped |-> 0, total_errors |-> 0, pages_processed |-> 0]

\* A capture run and its database session.  pc is "fetch" before a page of
\* the feed is asked for, "loop" inside the loop over the records, "commit"
\* before the final db.commit(), "done" once the statistics are returned and
\* "raised" once the run has raised to its caller.  left counts the records
\* the loop has not reached, pages the iterations range(max_pages) has left.
\* pending holds the rows of db.add() in order, dirty the rows the session
\* has loaded and changed.
NewRun(source, pc, left, pages) ==
  [source |-> source, pc |-> pc, left |-> left, pages |-> pages,
   max_pages |-> pages, next_link |-> FALSE, stop_processing |-> FALSE,
   pending |-> <<>>, dirty |-> {}, stats |-> ZeroStats]

\* What a query of the session answers from: the committed rows, a changed
\* row in place of its committed one; autoflush=False keeps added rows out.
Visible(r) == {g \in grants : \A d \in r.dirty : d.id # g.id} \cup r.dirty

Count(r, key) == [r EXCEPT !.stats[key] = @ + 1]

\* The loop goes to its next record; after the last one BOE and BDNS commit.
NextRecord(r) ==
  [r EXCEPT !.left = @ - 1, !.pc = IF r.left = 1 THEN "commit" ELSE "loop"]

Step(r, r2) == runs' = (runs (-) SetToBag({r})) (+) SetToBag({r2})

Running(r) == r \in BagToSet(runs) /\ r.pc = "loop" /\ r.left > 0

captureVars == <<history, tasks, now, room, backoffVars, flt, db, conv>>

\* --- BDNSService.capture_recent_grants
\* search_convocatorias has answered with n summaries.
BdnsCapture(n) ==
  /\ BagCardinality(runs) < room.runs
  /\ LET r == NewRun("BDNS", IF n = 0 THEN "commit" ELSE "loop", n, 0)
     IN runs' = runs (+) SetToBag({[r EXCEPT !.stats.total_fetched = n]})
  /\ UNCHANGED <<grants, captureVars>>

\* What the loop can meet for one summary: no detail, a call that raises
\* before the nonprofit check has answered, a detail whose text holds no
\* nonprofit keyword, one that holds some, and a failure of the lookup or of
\* the conversion after the check.  abierto is true, false or None.
\* The natural codes the captured records carry.
CaptureCodes == {"c1"}

BdnsFaults == {"none", "no_detail", "detail_raises", "save_raises"}

BdnsDetails ==
  {[fault |-> f, codigoBDNS |-> c, abierto |-> a, matches |-> m] :
     f \in BdnsFaults, c \in CaptureCodes, a \in {"true", "false", "None"}, m \in 0..1}

\* is_open = detail.abierto if detail.abierto is not None else False
BdnsIsOpen(detail) == detail.abierto = "true"

\* _should_update: detail.abierto != existing.is_open
_should_update(existing, detail) ==
  ~ \/ detail.abierto = "true" /\ existing.is_open
    \/ detail.abierto = "false" /\ ~existing.is_open

BdnsCreateGrant(detail) ==
  NewGrant("BDNS", detail.codigoBDNS, TRUE, BdnsIsOpen(detail))

BdnsUpdateGrant(grant, detail) == [grant EXCEPT !.is_open = BdnsIsOpen(detail)]

BdnsSummary(r, detail) ==
  IF detail.fault \in {"no_detail", "detail_raises"} THEN Count(r, "total_errors")
  ELSE IF detail.matches = 0 THEN r
  ELSE LET a == Count(r, "total_nonprofit")
           found == {g \in Visible(r) : g.bdns_code = detail.codigoBDNS}
       IN IF detail.fault = "save_raises" THEN Count(a, "total_errors")
          ELSE IF found # {}
          THEN LET existing == CHOOSE g \in found : TRUE
               IN IF _should_update(existing, detail)
                  THEN Count([a EXCEPT !.dirty = (@ \ {existing})
                                          \cup {BdnsUpdateGrant(existing, detail)}],
                             "total_updated")
                  ELSE Count(a, "total_skipped")
          ELSE Count([a EXCEPT !.pending = Append(@, BdnsCreateGrant(detail))],
                     "total_new")

BdnsRecord(r, detail) ==
  /\ Running(r) /\ r.source = "BDNS"
  /\ Step(r, NextRecord(BdnsSummary(r, detail)))
  /\ UNCHANGED <<grants, captureVars>>

\* --- BOEService.capture_daily_grants
\* get_boe_summary raises, answers without data, or answers with n items in
\* the relevant sections.
BoeCapture(answer, n) ==
  /\ BagCardinality(runs) < room.runs
  /\ LET r == CASE answer = "raises" -> NewRun("BOE", "raised", 0, 0)
                [] answer = "no_data" -> NewRun("BOE", "done", 0, 0)
                [] OTHER -> NewRun("BOE", IF n = 0 THEN "commit" ELSE "loop", n, 0)
     IN runs' = runs (+) SetToBag({r})
  /\ UNCHANGED <<grants, captureVars>>

\* An item of the summary: its identificador ("" when absent), whether it has
\* a titulo, what is_grant_related and _check_nonprofit answer for its text,
\* and whether handling it raises.
BoeItems ==
  {[identificador |-> c, titulo |-> t, grant_related |-> g, nonprofit |-> np,
    raises |-> x] :
     c \in CaptureCodes \cup {""}, t \in BOOLEAN, g \in BOOLEAN, np \in BOOLEAN, x \in BOOLEAN}

BoeCreateGrant(item) == NewGrant("BOE", item.identificador, item.nonprofit, TRUE)

BoeItem(r, item) ==
  LET a == Count(r, "total_scanned")
      found == FindGrant(Visible(r), GrantId("BOE", item.identificador))
  IN IF ~item.titulo \/ item.identificador = "" THEN NextRecord(a)
     ELSE IF ~item.grant_related THEN NextRecord(a)
     ELSE IF item.raises THEN [a EXCEPT !.pc = "raised"]
     ELSE IF found # {}
     THEN NextRecord(Count([a EXCEPT !.dirty = @ \cup found], "total_updated"))
     ELSE LET b == Count([a EXCEPT !.pending = Append(@, BoeCreateGrant(item))],
                         "total_new")
          IN NextRecord(IF item.nonprofit THEN Count(b, "total_nonprofit") ELSE b)

BoeRecord(r, item) ==
  /\ Running(r) /\ r.source = "BOE"
  /\ Step(r, BoeItem(r, item))
  /\ UNCHANGED <<grants, captureVars>>

\* --- PLACSPService.capture_recent_grants
Kw_contrato == <<"c", "o", "n", "t", "r", "a", "t", "o">>

Kw_suministro == <<"s", "u", "m", "i", "n", "i", "s", "t", "r", "o">>

Kw_servicio == <<"s", "e", "r", "v", "i", "c", "i", "o">>

Kw_obra == <<"o", "b", "r", "a">>

Kw_acuerdo_marco == <<"a", "c", "u", "e", "r", "d", "o", " ", "m", "a", "r", "c", "o">>

Kw_licitacion == <<"l", "i", "c", "i", "t", "a", "c", "i", "ó", "n">>

\* The profile "test_placsp" of the default profiles.
_init_default_profiles ==
  add_profile(NoProfiles, "test_placsp",
    FilterProfile(
      <<FilterRule([filter_type |-> "include",
                    value |-> <<Kw_contrato, Kw_suministro, Kw_servicio, Kw_obra,
                                Kw_acuerdo_marco, Kw_licitacion>>], 1, TRUE)>>,
      Frac(1, 10)))

PlacspCapture(max_pages) ==
  /\ BagCardinality(runs) < room.runs
  /\ runs' = runs (+) SetToBag({NewRun("PLACSP", IF max_pages = 0 THEN "commit"
                                                  ELSE "fetch", 0, max_pages)})
  /\ UNCHANGED <<grants, captureVars>>

\* A loop that follows the next link for as long as the feed gives one,
\* without the count of range(max_pages).
placsp_page_follows_next(r, answer, n, next_link) ==
  /\ r \in BagToSet(runs) /\ r.source = "PLACSP" /\ r.pc = "fetch"
  /\ r.stats.pages_processed <= MaxPages
  /\ Step(r, IF answer = "raises"
             THEN [Count(r, "total_errors") EXCEPT !.pc = "commit"]
             ELSE IF answer = "empty"
             THEN [Count(r, "pages_processed") EXCEPT !.pc = "commit"]
             ELSE [Count(r, "pages_processed") EXCEPT
                     !.pc = "loop", !.left = n, !.pages = 1,
                     !.next_link = next_link, !.stop_processing = FALSE])
  /\ UNCHANGED <<grants, captureVars>>

\* for page in range(max_pages): fetch_feed raises, answers no entries, or
\* answers n entries with or without a next link.
PlacspPage(r, answer, n, next_link) ==
  /\ r \in BagToSet(runs) /\ r.source = "PLACSP" /\ r.pc = "fetch"
  /\ r.pages > 0
  /\ Step(r, IF answer = "raises"
             THEN [Count(r, "total_errors") EXCEPT !.pc = "commit"]
             ELSE IF answer = "empty"
             THEN [Count(r, "pages_processed") EXCEPT !.pc = "commit"]
             ELSE [Count(r, "pages_processed") EXCEPT
                     !.pc = "loop", !.left = n, !.pages = @ - 1,
                     !.next_link = next_link, !.stop_processing = FALSE])
  /\ UNCHANGED <<grants, captureVars>>

\* An entry of the feed as parse_entry returns it: the path of its Atom id
\* (<<>> when the entry has none), the folder id, the title, whether its
\* updated date is before the cutoff, and whether parse_entry raises.
PlacspIds == {<<>>, <<"licitacionesPerfilContratante", "c1">>,
              <<"licitacionesPerfilContratante", "c2">>}

PlacspTitles == {None, <<"O", "b", "r", "a", "s">>, <<"x">>}

PlacspEntries ==
  {[id |-> i, folder_id |-> f, title |-> t, stale |-> st, raises |-> x] :
     i \in PlacspIds, f \in Codes, t \in PlacspTitles, st \in BOOLEAN, x \in BOOLEAN}

\* grant_id.split('/')[-1]
ShortId(grant_id) == grant_id[Len(grant_id)]

PlacspCreateGrant(data) ==
  [NewGrant("PLACSP", ShortId(data.id), TRUE, TRUE) EXCEPT
     !.placsp_folder_id = data.folder_id]

_save_grant(r, data) ==
  IF data.id = <<>> THEN r
  ELSE LET found == FindGrant(Visible(r), GrantId("PLACSP", ShortId(data.id)))
       IN IF found # {}
          THEN LET existing == CHOOSE g \in found : TRUE
               IN Count([r EXCEPT !.dirty = (@ \ {existing})
                           \cup {[existing EXCEPT !.placsp_folder_id = data.folder_id]}],
                        "total_updated")
          ELSE Count([r EXCEPT !.pending = Append(@, PlacspCreateGrant(data))],
                     "total_new")

\* A loop body without the cutoff test.
placsp_entry_ignores_cutoff(r, data) ==
  LET a == Count(r, "total_fetched")
      filter_result == evaluate_grant(_init_default_profiles,
                                      GrantInfo(data.title, <<>>), "test_placsp",
                                      NoExtract)
  IN IF data.raises \/ filter_result.raised THEN Count(a, "total_errors")
     ELSE IF filter_result.passed THEN _save_grant(Count(a, "total_nonprofit"), data)
     ELSE Count(a, "total_skipped")

PlacspEntry(r, data) ==
  LET a == Count(r, "total_fetched")
      stop == r.stop_processing \/ data.stale
      filter_result == evaluate_grant(_init_default_profiles,
                                      GrantInfo(data.title, <<>>), "test_placsp",
                                      NoExtract)
  IN IF data.raises THEN Count(a, "total_errors")
     ELSE IF stop THEN [a EXCEPT !.stop_processing = TRUE]
     ELSE IF filter_result.raised THEN Count(a, "total_errors")
     ELSE IF filter_result.passed THEN _save_grant(Count(a, "total_nonprofit"), data)
     ELSE Count(a, "total_skipped")

\* After the last entry of the page: stop at the cutoff, without a next
\* link or at the end of range(max_pages), or ask for the next page.
PlacspNext(r) ==
  IF r.left > 1 THEN [r EXCEPT !.left = @ - 1]
  ELSE [r EXCEPT !.left = 0,
                 !.pc = IF r.stop_processing \/ ~r.next_link \/ r.pages = 0
                        THEN "commit" ELSE "fetch"]

PlacspRecord(r, data) ==
  /\ Running(r) /\ r.source = "PLACSP"
  /\ Step(r, PlacspNext(PlacspEntry(r, data)))
  /\ UNCHANGED <<grants, captureVars>>

\* --- the final db.commit() of a run
\* The flush writes the changed rows and inserts the added ones; an added
\* row whose id is stored already, or was added twice, breaks the primary
\* key: commit raises, the transaction is lost and the run raises.
\* The UPDATE of a changed row sets the columns the run has assigned
\* (is_open by BDNS, placsp_folder_id by PLACSP; BOE assigns title,
\* department and captured_at only) and no other column of the stored row.
flush_writes_whole_row(store, r) ==
  {IF \E d \in r.dirty : d.id = g.id
   THEN CHOOSE x \in r.dirty : x.id = g.id
   ELSE g : g \in store}

Flush(store, r) ==
  {IF \E d \in r.dirty : d.id = g.id
   THEN LET d == CHOOSE x \in r.dirty : x.id = g.id
        IN [g EXCEPT !.is_open = IF r.source = "BDNS" THEN d.is_open ELSE @,
                     !.placsp_folder_id =
                        IF r.source = "PLACSP" THEN d.placsp_folder_id ELSE @]
   ELSE g : g \in store}

PendingIds(r) == {r.pending[i].id : i \in 1..Len(r.pending)}

Conflict(r) ==
  \/ Cardinality(PendingIds(r)) < Len(r.pending)
  \/ \E g \in grants : g.id \in PendingIds(r)

CommitRun(r) ==
  /\ r \in BagToSet(runs) /\ r.pc = "commit"
  /\ IF Conflict(r)
     THEN /\ Step(r, [r EXCEPT !.pc = "raised"])
          /\ UNCHANGED grants
     ELSE /\ Step(r, [r EXCEPT !.pc = "done"])
          /\ grants' = Flush(grants, r) \cup {r.pending[i] : i \in 1..Len(r.pending)}
  /\ UNCHANGED captureVars

\* The caller has the statistics, or the exception.
ReturnRun(r) ==
  /\ r \in BagToSet(runs) /\ r.pc \in {"done", "raised"}
  /\ runs' = runs (-) SetToBag({r})
  /\ UNCHANGED <<grants, captureVars>>

InitCapture ==
  /\ grants = {}
  /\ history = <<>>
  /\ tasks = EmptyBag
  /\ now = 0
  /\ room = Room(0, 0)
  /\ BackoffIdle
  /\ EngineIdle
  /\ db = "up"
  /\ conv = <<>>

NextCapture ==
  \/ \E n \in 0..MaxRecords : BdnsCapture(n)
  \/ \E r \in BagToSet(runs), detail \in BdnsDetails : BdnsRecord(r, detail)
  \/ \E answer \in {"raises", "no_data", "data"}, n \in 0..MaxRecords : BoeCapture(answer, n)
  \/ \E r \in BagToSet(runs), item \in BoeItems : BoeRecord(r, item)
  \/ \E max_pages \in 1..MaxPages : PlacspCapture(max_pages)
  \/ \E r \in BagToSet(runs), answer \in {"raises", "empty", "entries"},
        n \in 1..MaxEntries, next_link \in BOOLEAN : PlacspPage(r, answer, n, next_link)
  \/ \E r \in BagToSet(runs), data \in PlacspEntries : PlacspRecord(r, data)
  \/ \E r \in BagToSet(runs) : CommitRun(r)
  \/ \E r \in BagToSet(runs) : ReturnRun(r)

SpecCapture == InitCapture /\ [][NextCapture]_vars

\* Several processes (server workers, the verify_placsp.py script) run
\* captures against the same database, each with a session of its own.
InitProcesses ==
  /\ grants = {}
  /\ history = <<>>
  /\ tasks = EmptyBag
  /\ now = 0
  /\ room = [Room(0, 0) EXCEPT !.runs = MaxProcesses]
  /\ BackoffIdle
  /\ EngineIdle
  /\ db = "up"
  /\ conv = <<>>

\* BDNS runs over one summary and PLACSP runs over one page of one entry.
NextProcesses ==
  \/ BdnsCapture(1)
  \/ \E r \in BagToSet(runs), detail \in BdnsDetails : BdnsRecord(r, detail)
  \/ PlacspCapture(1)
  \/ \E r \in BagToSet(runs), answer \in {"raises", "empty", "entries"} :
        PlacspPage(r, answer, 1, FALSE)
  \/ \E r \in BagToSet(runs), data \in PlacspEntries : PlacspRecord(r, data)
  \/ \E r \in BagToSet(runs) : CommitRun(r)
  \/ \E r \in BagToSet(runs) : ReturnRun(r)

SpecProcesses == InitProcesses /\ [][NextProcesses]_vars

\* --- one PLACSP run at a time, from its call to its return
\* capture_recent_grants is synchronous code: once called it goes from one
\* statement to the next without waiting for anything but the answer of
\* fetch_feed, and session.get(url, timeout=...) inside _make_request
\* answers or raises after at most max_retries + 1 attempts.  So every step
\* of a run that can be taken is taken.  The answer of fetch_feed is free on
\* every page: the feed may give a next link for ever, and a link that
\* leads back to a page already read gives the answers of that page again.
\* The run is followed alone: it holds the thread from its call to its return.
InitPages ==
  /\ grants = {}
  /\ history = <<>>
  /\ tasks = EmptyBag
  /\ now = 0
  /\ room = [Room(0, 0) EXCEPT !.runs = 1]
  /\ BackoffIdle
  /\ EngineIdle
  /\ db = "up"
  /\ conv = <<>>

\* The entries of the pages: one tender under any title, in time or before
\* the cutoff, parsed or not.
PageEntries ==
  {data \in PlacspEntries :
     /\ data.id = <<"licitacionesPerfilContratante", "c1">>
     /\ data.folder_id = "c1"}

NextPages ==
  \/ \E max_pages \in 0..MaxPages : PlacspCapture(max_pages)
  \/ \E r \in BagToSet(runs), answer \in {"raises", "empty", "entries"},
        n \in 1..MaxEntries, next_link \in BOOLEAN : PlacspPage(r, answer, n, next_link)
  \/ \E r \in BagToSet(runs), data \in PageEntries : PlacspRecord(r, data)
  \/ \E r \in BagToSet(runs) : CommitRun(r)
  \/ \E r \in BagToSet(runs) : ReturnRun(r)

RunGoesOn ==
  /\ WF_vars(\E r \in BagToSet(runs), answer \in {"raises", "empty", "entries"},
                n \in 1..MaxEntries, next_link \in BOOLEAN :
                  PlacspPage(r, answer, n, next_link))
  /\ WF_vars(\E r \in BagToSet(runs), data \in PageEntries : PlacspRecord(r, data))
  /\ WF_vars(\E r \in BagToSet(runs) : CommitRun(r))
  /\ WF_vars(\E r \in BagToSet(runs) : ReturnRun(r))

SpecPages == InitPages /\ [][NextPages]_vars /\ RunGoesOn

\* ------------------------------------------- conversion of source records
\* "not x" of a text: None and the empty string are falsy.
Falsy(text) == text = None \/ text = <<>>

\* f"https://www.infosubvenciones.es/bdnstrans/api/documento/{doc.id}"
DocumentUrl(id) == <<"documento", "/", id>>

\* bdns_documents: one entry per attachment, in the order of the source.
BdnsDocuments(detail) ==
  [i \in 1..Len(detail.documentos) |-> [id |-> detail.documentos[i],
                                          url |-> DocumentUrl(detail.documentos[i])]]

\* A chain that prefers the regulatory-basis URL to the announcement.
pdf_url_bases_before_anuncios(detail) ==
  LET bdns_documents == BdnsDocuments(detail)
  IN IF Len(bdns_documents) > 0 THEN bdns_documents[1].url
     ELSE IF ~Falsy(detail.urlBasesReguladoras) THEN detail.urlBasesReguladoras
     ELSE IF Len(detail.anuncios) > 0 /\ ~Falsy(detail.anuncios[1])
     THEN detail.anuncios[1]
     ELSE None

\* pdf_url of _create_grant: the first document, else the url of the first
\* announcement, else urlBasesReguladoras, else None.
CreatePdfUrl(detail) ==
  LET bdns_documents == BdnsDocuments(detail)
      p1 == IF Len(bdns_documents) > 0 THEN bdns_documents[1].url ELSE None
      p2 == IF Falsy(p1) /\ Len(detail.anuncios) > 0 /\ ~Falsy(detail.anuncios[1])
            THEN detail.anuncios[1] ELSE p1
  IN IF Falsy(p2) /\ ~Falsy(detail.urlBasesReguladoras)
     THEN detail.urlBasesReguladoras ELSE p2

\* pdf_url of _update_grant: the same three steps, written out again there.
UpdatePdfUrl(detail) ==
  LET bdns_documents == BdnsDocuments(detail)
      p1 == IF Len(bdns_documents) > 0 THEN bdns_documents[1].url ELSE None
      p2 == IF Falsy(p1) /\ Len(detail.anuncios) > 0 /\ ~Falsy(detail.anuncios[1])
            THEN detail.anuncios[1] ELSE p1
  IN IF Falsy(p2) /\ ~Falsy(detail.urlBasesReguladoras)
     THEN detail.urlBasesReguladoras ELSE p2

\* is_open = detail.abierto if detail.abierto is not None else False
BdnsOpen(detail) == detail.abierto = "true"

\* What _create_grant and _update_grant of BDNS make of a detail.
BdnsCreated(detail) ==
  [pdf_url |-> CreatePdfUrl(detail), is_open |-> BdnsOpen(detail),
   application_end_date |-> detail.end_date]

BdnsUpdated(detail) ==
  [pdf_url |-> UpdatePdfUrl(detail), is_open |-> BdnsOpen(detail),
   application_end_date |-> detail.end_date]

\* PLACSP's _save_grant and BOE's _create_grant: is_open=True.  BOE items
\* carry no application dates.
PlacspCreated(detail) ==
  [is_open |-> TRUE, application_end_date |-> detail.end_date]

BoeCreated(detail) ==
  [is_open |-> TRUE, application_end_date |-> NoCode]

\* The source records converted: up to MaxDocuments attachments and
\* announcements, the url of an announcement and urlBasesReguladoras absent,
\* empty or given, abierto true, false or absent, and the end of the
\* application window absent, before or after the day of the capture.
DocumentIds == {"d1", "d2"}

AnnouncementUrls == {None, <<>>, <<"a">>, <<"b">>}

BasesUrls == {None, <<>>, <<"r">>}

EndDates == {NoCode, "past", "future"}

Lists(S, n) == UNION {[1..k -> S] : k \in 0..n}

SourceRecords(max_documents) ==
  [documentos : Lists(DocumentIds, max_documents),
   anuncios : Lists(AnnouncementUrls, max_documents),
   urlBasesReguladoras : BasesUrls,
   abierto : {"true", "false", "None"},
   end_date : EndDates]

InitConvert ==
  /\ grants = {}
  /\ history = <<>>
  /\ tasks = EmptyBag
  /\ now = 0
  /\ room = Room(0, 0)
  /\ BackoffIdle
  /\ EngineIdle
  /\ db = "up"
  /\ \E detail \in SourceRecords(MaxDocuments) :
       conv = [pc |-> "call", detail |-> detail]

Converted(source, op, result) ==
  /\ conv.pc = "call"
  /\ conv' = [pc |-> "returned", detail |-> conv.detail, source |-> source,
              op |-> op, result |-> result]
  /\ UNCHANGED <<grants, history, tasks, now, room, backoffVars, flt, runs, db>>

BdnsCreate == Converted("BDNS", "create", BdnsCreated(conv.detail))

BdnsUpdate == Converted("BDNS", "update", BdnsUpdated(conv.detail))

\* PLACSP entries and BOE items have no abierto field.
PlacspCreate ==
  /\ conv.pc = "call" /\ conv.detail.abierto = "None"
  /\ Converted("PLACSP", "create", PlacspCreated(conv.detail))

BoeCreate ==
  /\ conv.pc = "call" /\ conv.detail.abierto = "None" /\ conv.detail.end_date = NoCode
  /\ Converted("BOE", "create", BoeCreated(conv.detail))

NextConvert == BdnsCreate \/ BdnsUpdate \/ PlacspCreate \/ BoeCreate

SpecConvert == InitConvert /\ [][NextConvert]_vars

\* The life of a grant: capture runs of one record each create and update
\* it, sends of the basic service forward it, the export callback marks it.
\* A run and a delivery may overlap (the captures of another process).
InitLifecycle ==
  /\ grants = {}
  /\ history = <<>>
  /\ tasks = EmptyBag
  /\ now = 0
  /\ room = Room(0, MaxLifecycleTasks)
  /\ BackoffIdle
  /\ EngineIdle
  /\ db = "up"
  /\ conv = <<>>

LifecycleRequests ==
  {request \in CallbackRequests :
     /\ request.status \in {"success", "error"}
     /\ request.row_id = "r1"
     /\ request.sheets_url = NoCode}

\* The entries of the feed that concern the one procurement folder followed.
LifecycleEntries ==
  {data \in PlacspEntries :
     data.id \in {<<>>, <<"licitacionesPerfilContratante", "c1">>}}

NextLifecycle ==
  \/ BdnsCapture(1)
  \/ \E r \in BagToSet(runs), detail \in BdnsDetails : BdnsRecord(r, detail)
  \/ BoeCapture("data", 1)
  \/ \E r \in BagToSet(runs), item \in BoeItems : BoeRecord(r, item)
  \/ PlacspCapture(1)
  \/ \E r \in BagToSet(runs), answer \in {"raises", "empty", "entries"} :
        PlacspPage(r, answer, 1, FALSE)
  \/ \E r \in BagToSet(runs), data \in LifecycleEntries : PlacspRecord(r, data)
  \/ \E r \in BagToSet(runs) : CommitRun(r)
  \/ \E r \in BagToSet(runs) : ReturnRun(r)
  \/ \E id \in KnownIds : SendGrant(id)
  \/ \E t \in BagToSet(tasks), o \in Outcomes : Respond(t, o)
  \/ \E request \in LifecycleRequests : N8nSheetsCallback(request)
  \/ \E t \in BagToSet(tasks) : Reply(t)
  \/ \E t \in BagToSet(tasks) : Propagate(t)

SpecLifecycle == InitLifecycle /\ [][NextLifecycle]_vars

\* ------------------------------------------------- claims about capture
\* The natural code of a stored grant: the gazette document id, the
\* subsidy-database code, the procurement folder id.
NaturalCode(g) ==
  CASE g.source = "BOE" -> g.boe_id
    [] g.source = "BDNS" -> g.bdns_code
    [] OTHER -> g.placsp_folder_id

\* C3: after any sequence of capture runs the store holds at most one grant
\* per (source, natural code), and the id of that grant is source + "-" +
\* natural code.
C3_IdempotentIdentity ==
  \A g \in grants :
    /\ g.id = GrantId(g.source, NaturalCode(g))
    /\ \A h \in grants :
         (h.source = g.source /\ NaturalCode(h) = NaturalCode(g)) => h = g

ReturnedStats(r) == r \in BagToSet(runs) /\ r.pc = "done"

\* Records met again and left as stored: BDNS counts them in total_skipped;
\* PLACSP writes every record it meets again and counts none.
SkippedUnchanged(r) == IF r.source = "BDNS" THEN r.stats.total_skipped ELSE 0

\* C6: the statistics a BDNS or PLACSP capture run returns satisfy
\* total_nonprofit = total_new + total_updated + skipped-unchanged.
C6_AcceptedSplit ==
  \A r \in BagToSet(runs) :
    (ReturnedStats(r) /\ r.source \in {"BDNS", "PLACSP"}) =>
      r.stats.total_nonprofit
        = r.stats.total_new + r.stats.total_updated + SkippedUnchanged(r)

\* C7: in the statistics a capture run returns every fetched record is
\* counted once, as accepted, as rejected by the filter or as an error.
\* PLACSP counts the rejected records in total_skipped; BDNS keeps no count
\* of them, so they are the fetched records left over.
C7_FetchedAccounted ==
  \A r \in BagToSet(runs) :
    /\ (ReturnedStats(r) /\ r.source = "PLACSP") =>
         r.stats.total_fetched
           = r.stats.total_nonprofit + r.stats.total_skipped + r.stats.total_errors
    /\ (ReturnedStats(r) /\ r.source = "BDNS") =>
         r.stats.total_nonprofit + r.stats.total_errors <= r.stats.total_fetched

\* The loop of run r meets a record whose handling fails: the detail call,
\* the lookup or the conversion of a BDNS summary that has passed the nonprofit
\* check, the handling of a BOE item
\* that has passed the relevance check, the parsing of a PLACSP entry.
RecordFails(r) ==
  \/ \E detail \in BdnsDetails :
        /\ \/ detail.fault = "detail_raises"
           \/ detail.fault = "save_raises" /\ detail.matches = 1
        /\ BdnsRecord(r, detail)
  \/ \E item \in BoeItems :
        /\ item.titulo /\ item.identificador # "" /\ item.grant_related /\ item.raises
        /\ BoeRecord(r, item)
  \/ \E data \in PlacspEntries : data.raises /\ PlacspRecord(r, data)

\* C15: in a capture run of any source, a record whose normalization or
\* persistence fails adds one to the run's error counter, and the run goes on
\* (it does not raise to its caller).
C15_RecordFailureCounted ==
  [][\A r \in BagToSet(runs) :
       RecordFails(r) =>
         \E r2 \in BagToSet(runs') :
            /\ r2.stats.total_errors = r.stats.total_errors + 1
            /\ r2.pc # "raised"]_vars

\* The fetch of a whole page fails for run r at its source: fetch_feed raises
\* in a PLACSP run.
PageFails(r) ==
  \E n \in 1..MaxEntries, next_link \in BOOLEAN : PlacspPage(r, "raises", n, next_link)

\* C16: a failure of the source for a whole page aborts the run and is raised
\* to its caller: a BOE run whose summary request raises starts as raised, and
\* a PLACSP run whose page fetch raises ends as raised, not with statistics.
C16_PageFailureRaises ==
  [][/\ \A r \in BagToSet(runs) :
          PageFails(r) => \E r2 \in BagToSet(runs') : r2.pc = "raised"
     /\ (\E n \in 0..MaxRecords : BoeCapture("raises", n)) =>
          \E r2 \in BagToSet(runs') : r2.pc = "raised"]_vars

\* The rows a run has added and changed so far.
Processed(r) == {r.pending[i] : i \in 1..Len(r.pending)} \cup r.dirty

\* C17: partial progress is preserved: when a run has failed (at a record,
\* at a page or at its final step) every grant it had inserted or updated
\* before the failure is stored.
C17_PartialProgressKept ==
  \A r \in BagToSet(runs) : r.pc = "raised" => Processed(r) \subseteq grants

\* Run r commits rows of which one has, since r looked it up, been stored by
\* another run.
CommitMeetsStored(r) ==
  /\ CommitRun(r)
  /\ \E g \in grants : g.id \in PendingIds(r)

\* C18: two runs that have both looked up the same natural code before
\* either committed are reconciled per record: the run that commits second
\* does not fail as a whole, the records it processed besides the contested
\* one are stored, and the contested code has exactly one row.
C18_ConflictMerged ==
  [][\A r \in BagToSet(runs) :
       CommitMeetsStored(r) =>
         /\ CopiesIn([r EXCEPT !.pc = "raised"], runs')
              <= CopiesIn([r EXCEPT !.pc = "raised"], runs)
         /\ \A g \in Processed(r) : \E h \in grants' : h.id = g.id
         /\ \A g, h \in grants' : g.id = h.id => g = h]_vars

\* The orders in which the names of q can be listed.
Orders(q) ==
  {[i \in 1..Len(q) |-> q[f[i]]] : f \in Picks(1..Len(q), Len(q))}

Range(q) == {q[i] : i \in 1..Len(q)}

\* C19: the result of evaluating a record against a set of profiles does not
\* depend on the order in which the profiles are listed: each profile's
\* result (score, pass/fail), the profiles that passed, the best score and
\* the best match are the same for every order.
C19_OrderIndependent ==
  (flt # <<>> /\ flt.pc = "returned") =>
    \A names \in Orders(flt.profile_names) :
       LET other == evaluate_multiple_profiles(flt.profiles, flt.grant_info, names,
                                               flt.extracted_info)
       IN /\ other.all_results = flt.result.all_results
          /\ Range(other.passed_profiles) = Range(flt.result.passed_profiles)
          /\ other.best_score = flt.result.best_score
          /\ other.best_match = flt.result.best_match

\* The rules of the evaluated profile that hold a pattern re does not
\* compile, or are of a kind no branch of evaluate_grant takes.
Unusable ==
  {i \in 1..Len(EvaluatedRules) :
     \/ EvaluatedRules[i].filter_type = "regex" /\ ~EvaluatedRules[i].value.valid
     \/ EvaluatedRules[i].filter_type = "sector"}

\* C20: a rule with an invalid pattern or of an unhandled kind never aborts
\* the evaluation: the evaluation returns a result unless some other rule
\* raised, and in that result the rule has failed with score 0, its weight
\* is in the denominator of the total score, its required flag vetoes the
\* pass, and every rule of the profile has a result.
C20_UnusableRuleFails ==
  (flt # <<>> /\ flt.pc = "returned" /\ Unusable # {}) =>
    LET rules == EvaluatedRules
        full_text == FullText(flt.grant_info, flt.extracted_info)
    IN IF flt.result.raised
       THEN \E j \in (1..Len(rules)) \ Unusable :
               ApplyRule(rules[j], full_text, flt.grant_info, flt.extracted_info).raised
       ELSE /\ Len(flt.result.rule_results) = Len(rules)
            /\ \A i \in Unusable :
                  /\ ~flt.result.rule_results[i].passed
                  /\ flt.result.rule_results[i].score = Frac(0, 1)
                  /\ rules[i].required => ~flt.result.passed
            /\ FracEq(FracTimes(flt.result.total_score, AllRuleWeights),
                      PassedRuleProducts)

\* C21: a profile with zero rules is invalid: the profile store holds no
\* profile without rules, and an evaluation against a profile without rules
\* never answers passed.
C21_EmptyProfileInvalid ==
  /\ \A n \in DOMAIN flt.profiles : flt.profiles[n].rules # <<>>
  /\ (Returned /\ EvaluatedRules = <<>>) => ~flt.result.passed

\* The evaluation has returned for the record whose text is title alone.
Evaluated(title) ==
  /\ Returned
  /\ flt.grant_info.title = title
  /\ flt.grant_info.department = <<>>

\* C22: against the example profile, "Ayudas para fundaciones culturales"
\* makes the include rule match and the exclude rule pass, with total_score
\* 1.0 and passed true; "Ayudas para sociedad anónima" gives passed false.
C22_WorkedExample ==
  /\ Evaluated(TitleFundaciones) =>
       /\ flt.result.rule_results[1].passed
       /\ flt.result.rule_results[2].passed
       /\ FracEq(flt.result.total_score, Frac(1, 1))
       /\ flt.result.passed
  /\ Evaluated(TitleSociedad) => ~flt.result.passed

\* C23: after a callback with status "success" for a stored grant, the grant
\* is marked forwarded and exported, its export time is set, and the row id
\* and the url the callback carries are stored on it.
C23_SuccessCallbackMarks ==
  [][\A request \in CallbackRequests :
       (/\ N8nSheetsCallback(request)
        /\ request.status = "success"
        /\ FindGrant(grants, request.grant_id) # {}) =>
         \A g \in FindGrant(grants', request.grant_id) :
            /\ g.sent_to_n8n
            /\ g.google_sheets_exported
            /\ g.google_sheets_exported_at # NULL
            /\ Given(request.row_id) => g.google_sheets_row_id = request.row_id
            /\ Given(request.sheets_url) => g.google_sheets_url = request.sheets_url]_vars

\* C24: a callback with status "error", for an unknown grant or with a
\* status that is neither "success" nor "error" changes no field of any
\* grant; after an error report a grant that was not exported is still not
\* exported and its forwarded flag is what it was.
C24_OtherCallbacksChangeNothing ==
  [][\A request \in CallbackRequests :
       (/\ N8nSheetsCallback(request)
        /\ \/ request.status # "success"
           \/ FindGrant(grants, request.grant_id) = {}) =>
         /\ grants' = grants
         /\ request.status = "error" =>
              \A g \in FindGrant(grants, request.grant_id) :
                 \A h \in FindGrant(grants', request.grant_id) :
                    /\ h.sent_to_n8n = g.sent_to_n8n
                    /\ ~g.google_sheets_exported => ~h.google_sheets_exported]_vars

\* An error report has been answered for a grant that is forwarded and not
\* exported, and an earlier success report had been answered for another.
C24_Witness ==
  \E t \in BagToSet(tasks) :
     /\ t.kind = "callback" /\ t.pc = "done" /\ t.failed = 1
     /\ \E g \in FindGrant(grants, t.grant_id) :
           g.sent_to_n8n /\ ~g.google_sheets_exported
     /\ \E g \in grants : g.google_sheets_exported

\* The step from r to r2 of a run counts one more error and no more
\* accepted, new or updated records.
Rejected(r, r2) ==
  /\ r2.stats.total_errors = r.stats.total_errors + 1
  /\ r2.stats.total_nonprofit = r.stats.total_nonprofit
  /\ r2.stats.total_new = r.stats.total_new
  /\ r2.stats.total_updated = r.stats.total_updated

\* C25: a fetched record without a natural code (a BOE item without
\* identificador, a PLACSP entry without id that the loop reaches before the
\* cutoff) is rejected and counted in the errors of the run, and is not
\* counted as accepted, new or updated.
C25_CodelessRecordCounted ==
  [][\A r \in BagToSet(runs) :
       /\ \A item \in BoeItems :
            (BoeRecord(r, item) /\ item.identificador = "") =>
              Rejected(r, BoeItem(r, item))
       /\ \A data \in PlacspEntries :
            (/\ PlacspRecord(r, data)
             /\ data.id = <<>> /\ ~data.stale /\ ~r.stop_processing) =>
              Rejected(r, PlacspEntry(r, data))]_vars

\* The handlers that are inside client.post for the grant id.
Posting(id) == {t \in BagToSet(tasks) : t.pc = "posting" /\ t.grant_id = id}

\* C26: at most one outbound request per grant is in flight at any time,
\* whichever of a single send, a batch and a sweep the requests come from.
C26_OneRequestPerGrant ==
  \A id \in KnownIds :
     /\ Cardinality(Posting(id)) <= 1
     /\ \A t \in Posting(id) : CopiesIn(t, tasks) = 1

\* The outcomes of a POST that are retried while attempts are left.
Retryable == {"server_error", "transport"}

\* C27: after a 5xx answer or a transport error with attempts left, the send
\* leaves its history row "retrying" with a next_retry_at and returns; it
\* does not sleep and post again itself, the next request is the sweep's.
C27_RetryLeftToSweep ==
  [][\A t \in BagToSet(tasks) :
       /\ \A o \in Retryable :
            (Respond(t, o) /\ UsesRetry(t.kind) /\ t.attempt < t.max) =>
              /\ history'[t.hist].status = "retrying"
              /\ history'[t.hist].next_retry_at # NULL
              /\ \A u \in BagToSet(tasks') :
                    u.hist = t.hist => u.pc \notin {"sleeping", "posting"}
       /\ ~Wake(t)]_vars

\* No handler in flight owns the history row i: the coroutine that wrote it
\* has returned or was lost in a restart.
Ownerless(i) == \A u \in BagToSet(tasks) : u.hist # i

\* The send the sweep t made for the row it picked up returns with outcome o.
SweepSendReturns(t, o) ==
  /\ t.kind = "sweep"
  /\ Respond(t, o)
  /\ ~(t.attempt < t.max /\ o \in Retryable)

\* C28: delivery is resumable.  The row a sweep picks up is resolved by that
\* sweep: once the send made for an ownerless "retrying" row returns, the row
\* is "success" or "failed", so that later sweeps do not re-attempt it; and
\* while sweeps keep running no row stays "retrying" for ever.
C28_RetryingResolved ==
  /\ [][\A t \in BagToSet(tasks), o \in Outcomes :
          (SweepSendReturns(t, o) /\ Ownerless(t.item)) =>
            history'[t.item].status \in {"success", "failed"}]_vars
  /\ \A i \in 1..MaxResumeHistory :
       (i <= Len(history) /\ history[i].status = "retrying")
         ~> (i <= Len(history) /\ history[i].status \in {"success", "failed"})

\* The entry is before the cutoff date / is read and is not before it.
Stale(data) == ~data.raises /\ data.stale

Fresh(data) == ~data.raises /\ ~data.stale

\* The last entry of a page that mixes stale and fresh entries is reached:
\* it is fresh and an earlier entry of the page was stale, or it is stale
\* and the earlier entries of this first page were all read and fresh.
MixedPageEnds(r, data) ==
  /\ r.left = 1
  /\ \/ r.stop_processing /\ Fresh(data)
     \/ /\ ~r.stop_processing /\ Stale(data)
        /\ r.stats.pages_processed = 1
        /\ r.stats.total_fetched >= 1
        /\ r.stats.total_errors = 0

\* C29: a PLACSP run does not end because of one page that mixes stale and
\* fresh entries: with a next link and pages left in range(max_pages) it
\* goes on to fetch the next page.
C29_MixedPageContinues ==
  [][\A r \in BagToSet(runs), data \in PlacspEntries :
       (/\ PlacspRecord(r, data)
        /\ MixedPageEnds(r, data)
        /\ r.next_link /\ r.pages > 0) =>
         \E r2 \in BagToSet(runs') :
            /\ r2.pc = "fetch"
            /\ r2.stats = PlacspEntry(r, data).stats]_vars

\* The entry has been scored: it is counted as accepted, as skipped by the
\* profile or as an error, and an accepted entry with an id is counted as
\* new or updated.
Scored(r, a, data) ==
  LET filter_result == evaluate_grant(_init_default_profiles,
                                      GrantInfo(data.title, <<>>), "test_placsp",
                                      NoExtract)
  IN /\ a.stats.total_nonprofit + a.stats.total_skipped + a.stats.total_errors
          = r.stats.total_nonprofit + r.stats.total_skipped + r.stats.total_errors + 1
     /\ (~filter_result.raised /\ filter_result.passed /\ data.id # <<>>) =>
          a.stats.total_new + a.stats.total_updated
            = r.stats.total_new + r.stats.total_updated + 1

\* C30: a stale entry does not end the processing of its page: every fresh
\* entry of the page, before or after a stale one, is scored and, if
\* accepted, persisted.
C30_FreshEntriesScored ==
  [][\A r \in BagToSet(runs), data \in PlacspEntries :
       (PlacspRecord(r, data) /\ Fresh(data)) =>
         Scored(r, PlacspEntry(r, data), data)]_vars

\* The step from r to a of a run has written nothing and has counted nothing
\* as new or updated.
LeftAsStored(r, a) ==
  /\ a.dirty = r.dirty
  /\ a.pending = r.pending
  /\ a.stats.total_new = r.stats.total_new
  /\ a.stats.total_updated = r.stats.total_updated

\* C31: a record that is stored already and whose open status at the source
\* is the stored one is left as stored: the run writes nothing, counts it as
\* skipped (BDNS) and counts it neither as new nor as updated.  BOE and
\* PLACSP records carry no status: their grants are stored as open.
C31_UnchangedRecordSkipped ==
  [][\A r \in BagToSet(runs) :
       /\ \A detail \in BdnsDetails :
            (/\ BdnsRecord(r, detail)
             /\ detail.fault = "none" /\ detail.matches = 1
             /\ \E g \in Visible(r) :
                   g.bdns_code = detail.codigoBDNS /\ g.is_open = BdnsIsOpen(detail)) =>
              /\ LeftAsStored(r, BdnsSummary(r, detail))
              /\ BdnsSummary(r, detail).stats.total_skipped = r.stats.total_skipped + 1
       /\ \A item \in BoeItems :
            (/\ BoeRecord(r, item)
             /\ item.titulo /\ item.grant_related /\ ~item.raises
             /\ \E g \in Visible(r) :
                   g.id = GrantId("BOE", item.identificador) /\ g.is_open) =>
              LeftAsStored(r, BoeItem(r, item))
       /\ \A data \in PlacspEntries :
            (/\ PlacspRecord(r, data)
             /\ Fresh(data) /\ ~r.stop_processing /\ data.id # <<>>
             /\ \E g \in Visible(r) :
                   g.id = GrantId("PLACSP", ShortId(data.id)) /\ g.is_open) =>
              LeftAsStored(r, PlacspEntry(r, data))]_vars

\* h has the identity, the forwarded flag and time and the export markers of g.
SameOutsideCapture(g, h) ==
  /\ h.id = g.id
  /\ h.source = g.source
  /\ h.sent_to_n8n = g.sent_to_n8n
  /\ h.sent_to_n8n_at = g.sent_to_n8n_at
  /\ h.google_sheets_exported = g.google_sheets_exported
  /\ h.google_sheets_exported_at = g.google_sheets_exported_at
  /\ h.google_sheets_row_id = g.google_sheets_row_id
  /\ h.google_sheets_url = g.google_sheets_url

\* C32: the update a capture run makes to a stored grant leaves its id, its
\* source, its forwarded flag and time and its export markers as they are
\* stored when the run commits.
C32_UpdateKeepsDelivery ==
  [][\A r \in BagToSet(runs) :
       (CommitRun(r) /\ ~Conflict(r)) =>
         \A g \in grants :
            (\E d \in r.dirty : d.id = g.id) =>
              \E h \in grants' : SameOutsideCapture(g, h)]_vars

\* A BDNS run has committed the update of a grant that it had loaded before
\* the grant was forwarded: the stored row is forwarded and exported and has
\* the open status the run assigned.
C32_Witness ==
  \E r \in BagToSet(runs) :
     /\ r.pc = "done" /\ r.source = "BDNS" /\ r.stats.total_updated = 1
     /\ \E d \in r.dirty : \E g \in grants :
           /\ g.id = d.id
           /\ ~d.sent_to_n8n /\ g.sent_to_n8n /\ g.google_sheets_exported
           /\ g.is_open = d.is_open

\* The priority chain, first non-empty wins: the first attachment, the url
\* of the first announcement, the regulatory-basis url, none.
PriorityChain(detail) ==
  IF detail.documentos # <<>> THEN DocumentUrl(detail.documentos[1])
  ELSE IF detail.anuncios # <<>> /\ detail.anuncios[1] \notin {None, <<>>}
  THEN detail.anuncios[1]
  ELSE IF detail.urlBasesReguladoras \notin {None, <<>>}
  THEN detail.urlBasesReguladoras
  ELSE None

\* C33: the pdf_url of a BDNS grant follows the priority chain, and creating
\* and updating a grant from the same record give the same url.
C33_DocumentUrlChain ==
  (conv # <<>> /\ conv.pc = "returned" /\ conv.source = "BDNS") =>
    /\ conv.result.pdf_url = PriorityChain(conv.detail)
    /\ conv.op = "create" => conv.result.pdf_url = UpdatePdfUrl(conv.detail)
    /\ conv.op = "update" => conv.result.pdf_url = CreatePdfUrl(conv.detail)

\* A record without attachments whose first announcement has no url and
\* whose second has one has been converted: the regulatory-basis url wins.
C33_Witness ==
  /\ conv # <<>> /\ conv.pc = "returned" /\ conv.source = "BDNS"
  /\ conv.op = "update"
  /\ conv.detail.documentos = <<>>
  /\ conv.detail.anuncios = <<None, <<"b">> >>
  /\ conv.result.pdf_url = <<"r">>

\* C34: a grant made from a record that carries no open/closed flag is open
\* exactly when the end of its application window is in the future.
C34_OpenFromWindow ==
  (/\ conv # <<>> /\ conv.pc = "returned" /\ conv.op = "create"
   /\ conv.detail.abierto = "None") =>
    (conv.result.is_open <=> conv.result.application_end_date = "future")

Terminal == {"success", "failed"}

\* The rows a sweep that starts in this step has selected.
SelectedBySweep ==
  UNION {{t.item} \cup {t.queue[k] : k \in 1..Len(t.queue)} :
           t \in {u \in BagToSet(tasks') :
                     u.kind = "sweep" /\ CopiesIn(u, tasks') > CopiesIn(u, tasks)}}

\* C36: a history row whose status is "success" or "failed" is terminal: no
\* step of a send, a batch or a sweep changes its status, attempt_number or
\* next_retry_at, the sweep's query does not match it and a sweep that
\* starts does not select it.
C36_TerminalRowsStay ==
  [][\A i \in 1..Len(history) :
       history[i].status \in Terminal =>
         /\ history'[i].status = history[i].status
         /\ history'[i].attempt_number = history[i].attempt_number
         /\ history'[i].next_retry_at = history[i].next_retry_at
         /\ i \notin DueRetries(history, now)
         /\ RetryFailedWebhooks => i \notin SelectedBySweep]_vars

\* A send has given its row up as failed while a sweep was re-sending the
\* grant, and the sweep has delivered it under a second row.
C36_Witness ==
  /\ Len(history) = 2
  /\ history[1].status = "failed" /\ history[1].attempt_number = 2
  /\ history[2].status = "success"
  /\ \E t \in BagToSet(tasks) : t.kind = "sweep" /\ t.pc = "done" /\ t.successful = 1

\* C37: an entry whose updated date is before the cutoff is never added to
\* the session and never used to change a stored grant, wherever it stands
\* on its page and whichever page it is on.
C37_StaleNeverSaved ==
  [][\A r \in BagToSet(runs), data \in PlacspEntries :
       (data.stale /\ PlacspRecord(r, data)) =>
         LeftAsStored(r, PlacspEntry(r, data))]_vars

\* On its second page a run that has saved a fresh entry has met a stale one.
C37_Witness ==
  \E r \in BagToSet(runs) :
     /\ r.source = "PLACSP" /\ r.stop_processing
     /\ r.stats.pages_processed = 2
     /\ Len(r.pending) = 1 /\ r.stats.total_nonprofit = 1
     /\ r.stats.total_fetched = 3

\* C38: a PLACSP run that has been called returns, and it never asks for
\* more pages than max_pages, also when every page it reads carries a next
\* link.
C38_PagesBounded ==
  /\ [](\A r \in BagToSet(runs) :
          r.source = "PLACSP" => r.stats.pages_processed <= r.max_pages)
  /\ (\E r \in BagToSet(runs) : r.source = "PLACSP") ~> (runs = EmptyBag)

\* A run has read max_pages pages, each one with a next link and none with
\* an entry before the cutoff, and has come to its commit.
C38_Witness ==
  \E r \in BagToSet(runs) :
     /\ r.source = "PLACSP" /\ r.pc = "done"
     /\ r.max_pages = MaxPages /\ r.stats.pages_processed = MaxPages
     /\ r.next_link /\ ~r.stop_processing

\* The grants a resend has selected are unsent ones, no more than limit.
SelectsUnsent ==
  \A limit \in 1..MaxLimit : \A q \in Limited(Unsent(grants), limit) :
     /\ Len(q) <= limit
     /\ \A i \in 1..Len(q) :
          \E g \in grants : g.id = q[i] /\ ~g.sent_to_n8n /\ g.is_nonprofit

\* The resends that have just entered client.post for their next grant.
StartedPost ==
  {t \in BagToSet(tasks') :
     /\ t.kind = "resend" /\ t.pc = "posting"
     /\ CopiesIn(t, tasks') > CopiesIn(t, tasks)}

Forwarded(store, id) == \E g \in store : g.id = id /\ g.sent_to_n8n

\* C39: a resend selects unsent grants only and at most limit of them; run
\* again and again with every POST answered 200, it never posts a grant
\* whose forwarded flag is already set, and in the end no grant is left to
\* resend.
C39_ResendNeverRepeats ==
  /\ []SelectsUnsent
  /\ [][\A t \in StartedPost : ~Forwarded(grants, t.grant_id)]_vars
  /\ <>(Unsent(grants) = {})

====
